---------------------------- MODULE Spec2Model ----------------------------
(***************************************************************************)
(* A model of the AWACS controller of src/awacs.py: the track registry     *)
(* (WorldState), the priority alerts (MERGED, DEFEND), the CAP sites and   *)
(* the PUSH plan, driven by the telemetry ingest loop (Controller._run_loop)*)
(* and by the command path (Controller.handle_text).                       *)
(*                                                                         *)
(* Units.  Simulation time is counted in steps of 1/Sub second, so that    *)
(* non-integer timestamps exist; planar coordinates U, V are counted in    *)
(* nautical miles (U/1852, V/1852) on an integer grid, and a range is      *)
(* carried as its square, so that "rng <= 3.0" is "d2 <= 3*3".  Altitudes  *)
(* are metres.  An optional value is None (the empty tuple) or Some(x).    *)
(***************************************************************************)
EXTENDS Integers, Sequences, FiniteSets, TLC

\* ------------------------------------------------------------------ bounds
\* time steps per simulated second (resolution of the modelled timestamps)
Sub == 2
\* the PUSH feed carries the timestamps 0 and PushT (a fraction of a second)
\* and, PushOffsetS seconds on, PushOffsetS*Sub and PushOffsetS*Sub + PushT
PushT == 1
\* the ghost counters (pushRuns, defendCount) saturate at CountCap
CountCap == 3

\* ------------------------------------------------------- program constants
MERGED_NM == 3
MISSILE_ALERT_MAX_RANGE_NM == 30
TTL == 10
HZ == 1
MergedCooldown == 10
InitLastMergedTick == -9999
InitLastEmitTick == -1
\* the offset of "push set ... in 30s" (the command text of the feed)
PushOffsetS == 30

\* ----------------------------------------------------------- option values
None == << >>
Some(x) == << x >>
IsNone(x) == x = << >>
Val(x) == x[1]

\* ------------------------------------------------------------ sample data
\* Type tags, coalition tags, colours and names the modelled feed carries.
\* The code tests them by substring (`"Air" in t`, `tag in c`); the
\* operators below give the result of each test on these samples.
TypeAir == "Air+FixedWing"
TypeMissile == "Weapon+Missile"
TypeBullseye == "Navaid+Static+Bullseye"

Obj(type, coal, color, name, callsign, uv, alt) ==
    [Type |-> type, Coalition |-> coal, Color |-> color, Name |-> name,
     Callsign |-> callsign, uv |-> uv, alt |-> alt, hdg |-> None]

\* the same object with T.Heading = h (degrees)
Heading(o, h) == [o EXCEPT !.hdg = Some(h)]

\* `"Air" in str(getattr(o,"Type",""))`
IsAirType(t) == t = TypeAir
\* `"Navaid+Static+Bullseye" in t or "Navaid+Bullseye" in t`
IsBullseyeType(t) == t = TypeBullseye
\* `"Weapon" in t and ("Missile" in t or "Guided" in t)`
IsWeaponType(t) == t = TypeMissile
\* `any(h in nm for h in MISSILE_HINTS)`
HasMissileHint(nm) == nm \in {"AIM-120C", "R-77"}
\* `any(h in nm for h in TANKER_HINTS)`
HasTankerHint(nm) == nm \in {"KC-135"}
\* the airframe test of friendly_label: generic pattern and one of "F-","MiG",...
IsGenericAirframe(nm) == nm \in {"F-16C", "MiG-29", "KC-135"}

is_missile(o) == IsWeaponType(o.Type) \/ HasMissileHint(o.Name)

coalition_of(o) ==
    IF o.Coalition \in {"Allies", "Blue", "NATO", "USA"} THEN "Blue"
    ELSE IF o.Coalition \in {"Enemies", "Red", "OPFOR"} THEN "Red"
    ELSE IF o.Color \in {"Blue", "LightBlue", "Cyan", "Turquoise"} THEN "Blue"
    ELSE IF o.Color \in {"Red", "Orange", "Maroon"} THEN "Red"
    ELSE IF HasTankerHint(o.Name) THEN "Blue"
    ELSE "Unknown"

friendly_label(o) ==
    IF o.Callsign # "" THEN o.Callsign
    ELSE IF o.Name # "" /\ ~IsGenericAirframe(o.Name) THEN o.Name
    ELSE "Fighter"

\* ------------------------------------------------------------- geometry
\* uv_of with a slip: U = 0, V = 0 is taken for a position
uv_of_raw(o) == o.uv

\* get_xy_mode / uv_of: the planar position, None when U and V are both
\* absent or both 0.0
uv_of(o) == IF o.uv = None \/ o.uv = <<0, 0>> THEN None ELSE o.uv

\* the square of the range (NM) of brg_rng_from_xy
Range2(a, b) == (b[1] - a[1]) * (b[1] - a[1]) + (b[2] - a[2]) * (b[2] - a[2])

\* int(round(rng_nm)): the integer nearest to the square root of d2
RoundSqrt(d2) ==
    CHOOSE r \in 0..(d2 + 1) :
        /\ r = 0 \/ (2 * r - 1) * (2 * r - 1) <= 4 * d2
        /\ 4 * d2 < (2 * r + 1) * (2 * r + 1)

\* math.sin of i/2 degrees, i = 0..180, times 10^6 (SinHalfDeg[i + 1])
SinHalfDeg ==
   << 0, 8727, 17452, 26177, 34899, 43619, 52336, 61049, 69756, 78459,
      87156, 95846, 104528, 113203, 121869, 130526, 139173, 147809, 156434, 165048,
      173648, 182236, 190809, 199368, 207912, 216440, 224951, 233445, 241922, 250380,
      258819, 267238, 275637, 284015, 292372, 300706, 309017, 317305, 325568, 333807,
      342020, 350207, 358368, 366501, 374607, 382683, 390731, 398749, 406737, 414693,
      422618, 430511, 438371, 446198, 453990, 461749, 469472, 477159, 484810, 492424,
      500000, 507538, 515038, 522499, 529919, 537300, 544639, 551937, 559193, 566406,
      573576, 580703, 587785, 594823, 601815, 608761, 615661, 622515, 629320, 636078,
      642788, 649448, 656059, 662620, 669131, 675590, 681998, 688355, 694658, 700909,
      707107, 713250, 719340, 725374, 731354, 737277, 743145, 748956, 754710, 760406,
      766044, 771625, 777146, 782608, 788011, 793353, 798636, 803857, 809017, 814116,
      819152, 824126, 829038, 833886, 838671, 843391, 848048, 852640, 857167, 861629,
      866025, 870356, 874620, 878817, 882948, 887011, 891007, 894934, 898794, 902585,
      906308, 909961, 913545, 917060, 920505, 923880, 927184, 930418, 933580, 936672,
      939693, 942641, 945519, 948324, 951057, 953717, 956305, 958820, 961262, 963630,
      965926, 968148, 970296, 972370, 974370, 976296, 978148, 979925, 981627, 983255,
      984808, 986286, 987688, 989016, 990268, 991445, 992546, 993572, 994522, 995396,
      996195, 996917, 997564, 998135, 998630, 999048, 999391, 999657, 999848, 999962,
      1000000 >>

\* sin and cos of a whole number of degrees, 0..359, times 10^6
SinE6(deg) ==
    IF deg <= 90 THEN SinHalfDeg[2 * deg + 1]
    ELSE IF deg <= 180 THEN SinHalfDeg[2 * (180 - deg) + 1]
    ELSE IF deg <= 270 THEN 0 - SinHalfDeg[2 * (deg - 180) + 1]
    ELSE 0 - SinHalfDeg[2 * (360 - deg) + 1]
CosE6(deg) == SinE6((deg + 90) % 360)

\* int(round(bearing_deg(dx, dy))) % 360.  Off the axes the angle from north
\* of (|dx|, |dy|) is rounded by counting the half-degree marks k + 0.5 it has
\* passed (|dx| cos >= |dy| sin there), and mirrored into the quadrant; no
\* grid point lies on such a mark.
Bearing(dx, dy) ==
    IF dx = 0 /\ dy >= 0 THEN 0
    ELSE IF dx = 0 THEN 180
    ELSE IF dy = 0 THEN (IF dx > 0 THEN 90 ELSE 270)
    ELSE LET ax == IF dx > 0 THEN dx ELSE 0 - dx
             ay == IF dy > 0 THEN dy ELSE 0 - dy
             a == Cardinality({ k \in 0..89 :
                                  ax * SinHalfDeg[180 - (2 * k + 1) + 1]
                                     >= ay * SinHalfDeg[(2 * k + 1) + 1] })
         IN  IF dx > 0 THEN (IF dy > 0 THEN a ELSE 180 - a)
             ELSE (IF dy > 0 THEN (360 - a) % 360 ELSE 180 + a)

brg_rng_from_xy(o, t) ==
    [brg |-> Bearing(t[1] - o[1], t[2] - o[2]), d2 |-> Range2(o, t)]

\* bulls_to_uv for the cardinal bearings of the modelled commands
bulls_to_uv(buv, brg, rng) ==
    IF brg = 0 THEN <<buv[1], buv[2] + rng>>
    ELSE IF brg = 90 THEN <<buv[1] + rng, buv[2]>>
    ELSE IF brg = 180 THEN <<buv[1], buv[2] - rng>>
    ELSE <<buv[1] - rng, buv[2]>>


\* the integer part of the square root of x, searched between lo and hi
RECURSIVE ISqrtBetween(_, _, _)
ISqrtBetween(x, lo, hi) ==
    IF lo >= hi THEN lo
    ELSE LET mid == (lo + hi + 1) \div 2
         IN  IF mid * mid <= x THEN ISqrtBetween(x, mid, hi)
             ELSE ISqrtBetween(x, lo, mid - 1)

\* bulls_to_uv for any whole bearing and the unrounded range sqrt(d2) that
\* brg_rng_from_xy returns: the point in 1/1000 NM (sin and cos to 4 digits,
\* the range to 1/1000 NM: the result is within 0.01 NM of the code's for
\* ranges up to 40 NM)
bulls_to_uv_fine(buv, brg, d2) ==
    LET r == ISqrtBetween(d2 * 1000000, 0, 46000)
    IN  << buv[1] * 1000 + ((SinE6(brg) \div 100) * r) \div 10000,
           buv[2] * 1000 + ((CosE6(brg) \div 100) * r) \div 10000 >>

\* M_TO_FT = 3.280839895, as feet per 10000 metres
M_TO_FT_E4 == 32808

\* threat_alt_phrase: "ALT UNKNOWN", "FLnnn" from 18,000 ft, else "n,n00 FT"
\* (hundreds of feet: int(round(ft/100.0)))
threat_alt_phrase(alt) ==
    IF alt = None THEN <<"ALT UNKNOWN">>
    ELSE LET hundreds == (Val(alt) * M_TO_FT_E4 + 500000) \div 1000000
         IN  IF Val(alt) * M_TO_FT_E4 >= 18000 * 10000
             THEN <<"FL", hundreds>>
             ELSE <<"FT", hundreds * 100>>

\* ------------------------------------------------- dictionaries with order
\* ws.objects, ws.cap_sites and ws.bullseye_by_coal are Python dicts, whose
\* order of insertion the code observes (blues[0], the first bullseye).  They are
\* sequences of entries [key, val]; a key keeps its place when re-assigned.
Keys(d) == { d[i].key : i \in DOMAIN d }
Get(d, k) == d[CHOOSE i \in DOMAIN d : d[i].key = k].val
Put(d, k, v) ==
    IF k \in Keys(d)
    THEN [i \in DOMAIN d |-> IF d[i].key = k THEN [key |-> k, val |-> v] ELSE d[i]]
    ELSE Append(d, [key |-> k, val |-> v])
Pop(d, k) == SelectSeq(d, LAMBDA e : e.key # k)
Values(d) == [i \in DOMAIN d |-> d[i].val]

\* a function without the key k (dict.pop(k, None) where order is not observed)
Without(f, k) == [x \in (DOMAIN f) \ {k} |-> f[x]]
With(f, k, v) == [x \in (DOMAIN f) \cup {k} |-> IF x = k THEN v ELSE f[x]]

\* ----------------------------------------------------------- world state
\* TrackWrap.__init__
TrackWrap(obj) ==
    [obj |-> obj, home_uv |-> None, last_uv |-> obj.uv, last_t |-> None,
     spd |-> [d2 |-> 0, dt |-> 1]]

\* TrackWrap.update_speed.  spd_mps is carried as the squared distance d2 (NM)
\* over the elapsed time dt (steps); dt = 0 stands for the clamp 1e-6 s, and a
\* speed of 0.0 is always [d2 |-> 0, dt |-> 1].
update_speed(tr, now) ==
    IF tr.last_t = None
    THEN [tr EXCEPT !.last_t = Some(now), !.last_uv = tr.obj.uv]
    ELSE IF tr.obj.uv = None \/ tr.last_uv = None THEN tr
    ELSE LET d2 == Range2(tr.last_uv, tr.obj.uv)
             el == now - Val(tr.last_t)
         IN  [tr EXCEPT !.spd = IF d2 = 0 THEN [d2 |-> 0, dt |-> 1]
                                 ELSE [d2 |-> d2, dt |-> IF el > 0 THEN el ELSE 0],
                        !.last_t = Some(now),
                        !.last_uv = tr.obj.uv]

\* `(tr.spd_mps or 0.0) * 1.943844492 < 60`: 1 NM/s is 3600 kt
BelowSixtyKnots(spd) ==
    spd.d2 = 0 \/ (spd.dt > 0 /\ 3600 * Sub * Sub * spd.d2 <= spd.dt * spd.dt)

\* PushPlan.__init__
PushPlan ==
    [active |-> FALSE, brg |-> None, rng |-> None, target_uv |-> None,
     exec_time |-> None, created_at |-> None]

\* CAPSite.__init__
CAPSite(name, center_uv, radius_nm, alt_lo_ft, alt_hi_ft) ==
    [name |-> name, center_uv |-> center_uv, radius_nm |-> radius_nm,
     alt_lo_ft |-> alt_lo_ft, alt_hi_ft |-> alt_hi_ft, assigned_ids |-> {}]

\* WorldState.__init__
WorldState ==
    [time |-> 0, objects |-> << >>, tracks |-> << >>, last_seen |-> << >>,
     bullseye_by_coal |-> << >>, missiles |-> << >>, cap_sites |-> << >>,
     push_plan |-> PushPlan]

\* upsert with a slip: the home plate is learnt again on every low, slow fix
upsert_relearns_home(w, oid, obj, now) ==
    LET tr0 == IF oid \in DOMAIN w.tracks
               THEN [w.tracks[oid] EXCEPT !.obj = obj]
               ELSE TrackWrap(obj)
        tr1 == IF /\ IsAirType(obj.Type)
                  /\ obj.uv # None /\ obj.alt # None
                  /\ BelowSixtyKnots(tr0.spd)
                  /\ Val(obj.alt) < 300
               THEN [tr0 EXCEPT !.home_uv = obj.uv]
               ELSE tr0
    IN  [w EXCEPT
           !.objects = Put(w.objects, oid, obj),
           !.last_seen = With(w.last_seen, oid, now),
           !.tracks = With(w.tracks, oid, tr1),
           !.bullseye_by_coal =
               IF IsBullseyeType(obj.Type)
               THEN Put(w.bullseye_by_coal,
                        IF obj.Coalition = "" THEN "Unknown" ELSE obj.Coalition, oid)
               ELSE w.bullseye_by_coal,
           !.missiles = IF is_missile(obj) THEN With(w.missiles, oid, obj)
                        ELSE w.missiles]

\* WorldState.upsert
upsert(w, oid, obj, now) ==
    LET tr0 == IF oid \in DOMAIN w.tracks
               THEN [w.tracks[oid] EXCEPT !.obj = obj]
               ELSE TrackWrap(obj)
        tr1 == IF /\ IsAirType(obj.Type)
                  /\ tr0.home_uv = None
                  /\ obj.uv # None /\ obj.alt # None
                  /\ BelowSixtyKnots(tr0.spd)
                  /\ Val(obj.alt) < 300
               THEN [tr0 EXCEPT !.home_uv = obj.uv]
               ELSE tr0
    IN  [w EXCEPT
           !.objects = Put(w.objects, oid, obj),
           !.last_seen = With(w.last_seen, oid, now),
           !.tracks = With(w.tracks, oid, tr1),
           !.bullseye_by_coal =
               IF IsBullseyeType(obj.Type)
               THEN Put(w.bullseye_by_coal,
                        IF obj.Coalition = "" THEN "Unknown" ELSE obj.Coalition, oid)
               ELSE w.bullseye_by_coal,
           !.missiles = IF is_missile(obj) THEN With(w.missiles, oid, obj)
                        ELSE w.missiles]

\* remove with a slip: the entry of last_seen is left behind
remove_keeps_last_seen(w, oid) ==
    [w EXCEPT
       !.objects = Pop(w.objects, oid),
       !.tracks = Without(w.tracks, oid),
       !.missiles = Without(w.missiles, oid),
       !.bullseye_by_coal = SelectSeq(w.bullseye_by_coal, LAMBDA e : e.val # oid),
       !.cap_sites =
           [i \in DOMAIN w.cap_sites |->
              [w.cap_sites[i] EXCEPT
                 !.val.assigned_ids = w.cap_sites[i].val.assigned_ids \ {oid}]]]

\* remove with a slip: the bullseye slots are left as they were
remove_keeps_slots(w, oid) ==
    [w EXCEPT
       !.objects = Pop(w.objects, oid),
       !.tracks = Without(w.tracks, oid),
       !.last_seen = Without(w.last_seen, oid),
       !.missiles = Without(w.missiles, oid),
       !.cap_sites =
           [i \in DOMAIN w.cap_sites |->
              [w.cap_sites[i] EXCEPT
                 !.val.assigned_ids = w.cap_sites[i].val.assigned_ids \ {oid}]]]

\* WorldState.remove
remove(w, oid) ==
    [w EXCEPT
       !.objects = Pop(w.objects, oid),
       !.tracks = Without(w.tracks, oid),
       !.last_seen = Without(w.last_seen, oid),
       !.missiles = Without(w.missiles, oid),
       !.bullseye_by_coal = SelectSeq(w.bullseye_by_coal, LAMBDA e : e.val # oid),
       !.cap_sites =
           [i \in DOMAIN w.cap_sites |->
              [w.cap_sites[i] EXCEPT
                 !.val.assigned_ids = w.cap_sites[i].val.assigned_ids \ {oid}]]]

RECURSIVE remove_all(_, _)
remove_all(w, ids) ==
    IF ids = {} THEN w
    ELSE LET oid == CHOOSE x \in ids : TRUE
         IN  remove_all(remove(w, oid), ids \ {oid})

\* cull_stale with a slip: an entry last seen exactly ttl ago is removed too
cull_stale_at_ttl(w, now) ==
    remove_all(w, { oid \in DOMAIN w.last_seen : now - w.last_seen[oid] >= TTL * Sub })

\* WorldState.cull_stale: remove every entry last seen more than ttl ago
cull_stale(w, now) ==
    remove_all(w, { oid \in DOMAIN w.last_seen : now - w.last_seen[oid] > TTL * Sub })

\* WorldState.get_air / blues / reds / unks: in the order of ws.objects
get_air(w) == SelectSeq(Values(w.objects), LAMBDA o : IsAirType(o.Type))
blues(w) == SelectSeq(get_air(w), LAMBDA o : coalition_of(o) = "Blue")
reds(w) == SelectSeq(get_air(w), LAMBDA o : coalition_of(o) = "Red")
unks(w) == SelectSeq(get_air(w), LAMBDA o : coalition_of(o) = "Unknown")


\* WorldState.find_bull: the bullseye object, None when there is none
BullPrefs == <<"Allies", "Blue", "ROK", "NATO", "Training", "USA", "U.S.">>
find_bull(w) ==
    LET live(oid) == oid \in Keys(w.objects)
        prefHit == { i \in DOMAIN BullPrefs :
                        /\ BullPrefs[i] \in Keys(w.bullseye_by_coal)
                        /\ live(Get(w.bullseye_by_coal, BullPrefs[i])) }
        anyHit == { i \in DOMAIN w.bullseye_by_coal : live(w.bullseye_by_coal[i].val) }
        first(S) == CHOOSE i \in S : \A j \in S : i <= j
    IN  IF prefHit # {}
        THEN Some(Get(w.objects, Get(w.bullseye_by_coal, BullPrefs[first(prefHit)])))
        ELSE IF anyHit # {}
        THEN Some(Get(w.objects, w.bullseye_by_coal[first(anyHit)].val))
        ELSE IF blues(w) # << >> THEN Some(blues(w)[1])
        ELSE None

\* `_norm(s)`: lower case, letters and digits only, for the sample strings
\* find_callsign is asked with: q in _norm(field)
NormContains(field, q) ==
    \/ field = "Viper11" /\ q \in {"viper11", "viper"}
    \/ field = "Viper12" /\ q \in {"viper12", "viper"}
    \/ field = "F-16C" /\ q \in {"f16c"}

\* find_callsign: the id of the first entry of ws.objects, among those of the
\* coalition asked for, with a matching Name or Callsign; None when there is none
find_callsign_blue(w, q) ==
    LET hit == { i \in DOMAIN w.objects :
                   LET o == w.objects[i].val
                   IN  /\ IsAirType(o.Type) /\ coalition_of(o) = "Blue"
                       /\ (NormContains(o.Name, q) \/ NormContains(o.Callsign, q)) }
    IN  IF q = "" \/ hit = {} THEN None
        ELSE Some(w.objects[CHOOSE i \in hit : \A j \in hit : i <= j].key)

\* ------------------------------------------------------------ log lines
\* A line of console_log: its kind, the entity it names (oid; the text holds
\* only the label) and the numbers formatted into it.
Line(kind, oid, label, args) ==
    [kind |-> kind, oid |-> oid, label |-> label, args |-> args]

\* every ordering of a finite set of lines (a Python set is iterated in no
\* specified order)
Orderings(S) ==
    { q \in [1..Cardinality(S) -> S] : \A i, j \in 1..Cardinality(S) : q[i] = q[j] => i = j }

\* ------------------------------------------------------------ controller
\* Controller._check_merged: the MERGED line of the first Red air contact (in
\* registry order) with a Blue air contact within MERGED_NM, None when none
merged_line(w) ==
    LET rs == reds(w)
        bs == blues(w)
        hit == { i \in DOMAIN rs :
                   /\ uv_of(rs[i]) # None
                   /\ \E j \in DOMAIN bs :
                        /\ uv_of(bs[j]) # None
                        /\ Range2(uv_of(rs[i]), uv_of(bs[j])) <= MERGED_NM * MERGED_NM }
    IN  IF hit = {} THEN None
        ELSE LET e == rs[CHOOSE i \in hit : \A j \in hit : i <= j]
             IN  Some(Line("MERGED", "", "", threat_alt_phrase(e.alt)))

\* check_merged with a slip: the tick of the emission is not recorded
check_merged_no_stamp(w, tick_now, last_tick) ==
    IF merged_line(w) # None /\ tick_now - last_tick >= MergedCooldown
    THEN [lines |-> <<Val(merged_line(w))>>, last_merged_tick |-> last_tick]
    ELSE [lines |-> << >>, last_merged_tick |-> last_tick]

\* check_merged with a slip: the cooldown must be exceeded, not reached
check_merged_strict(w, tick_now, last_tick) ==
    IF merged_line(w) # None /\ tick_now - last_tick > MergedCooldown
    THEN [lines |-> <<Val(merged_line(w))>>, last_merged_tick |-> tick_now]
    ELSE [lines |-> << >>, last_merged_tick |-> last_tick]

\* Controller._check_merged: [lines logged, the new _last_merged_tick]
check_merged(w, tick_now, last_tick) ==
    IF merged_line(w) # None /\ tick_now - last_tick >= MergedCooldown
    THEN [lines |-> <<Val(merged_line(w))>>, last_merged_tick |-> tick_now]
    ELSE [lines |-> << >>, last_merged_tick |-> last_tick]

\* defend_lines with a slip: the first Blue flight with a position is taken,
\* not the nearest
defend_lines_first_blue(w, oid, obj) ==
    LET muv == uv_of(obj)
        bs == blues(w)
        cand == { i \in DOMAIN bs : uv_of(bs[i]) # None }
        best == CHOOSE i \in cand : \A j \in cand : i <= j
    IN  IF /\ is_missile(obj)
           /\ coalition_of(obj) # "Blue"
           /\ muv # None
           /\ cand # {}
           /\ Range2(muv, uv_of(bs[best]))
                <= MISSILE_ALERT_MAX_RANGE_NM * MISSILE_ALERT_MAX_RANGE_NM
        THEN LET br == brg_rng_from_xy(uv_of(bs[best]), muv)
             IN  <<Line("DEFEND", oid, friendly_label(bs[best]),
                        <<br.brg, RoundSqrt(br.d2)>>)>>
        ELSE << >>

\* the DEFEND line of _check_missile_birth for a weapon at muv, << >> when
\* the conditions for it do not hold
defend_lines(w, oid, obj) ==
    LET muv == uv_of(obj)
        bs == blues(w)
        cand == { i \in DOMAIN bs : uv_of(bs[i]) # None }
        \* `if rng < best_rng`: the first of the nearest
        best == CHOOSE i \in cand :
                  \A j \in cand :
                     \/ Range2(muv, uv_of(bs[i])) < Range2(muv, uv_of(bs[j]))
                     \/ Range2(muv, uv_of(bs[i])) = Range2(muv, uv_of(bs[j])) /\ i <= j
    IN  IF /\ is_missile(obj)
           /\ coalition_of(obj) # "Blue"
           /\ muv # None
           /\ cand # {}
           /\ Range2(muv, uv_of(bs[best]))
                <= MISSILE_ALERT_MAX_RANGE_NM * MISSILE_ALERT_MAX_RANGE_NM
        THEN LET br == brg_rng_from_xy(uv_of(bs[best]), muv)
             IN  <<Line("DEFEND", oid, friendly_label(bs[best]),
                        <<br.brg, RoundSqrt(br.d2)>>)>>
        ELSE << >>

\* check_missile_birth with a slip: the id is not added to _known_ids
check_missile_birth_forgets(w, known, oid, obj) ==
    IF oid \in known THEN [lines |-> << >>, known_ids |-> known]
    ELSE [known_ids |-> known, lines |-> defend_lines(w, oid, obj)]

\* Controller._check_missile_birth: [lines logged, the new _known_ids]
check_missile_birth(w, known, oid, obj) ==
    IF oid \in known THEN [lines |-> << >>, known_ids |-> known]
    ELSE [known_ids |-> known \cup {oid}, lines |-> defend_lines(w, oid, obj)]

\* recipients with a slip: only the first CAP site is read
recipients_first_site(w) ==
    IF w.cap_sites = << >> THEN {} ELSE w.cap_sites[1].val.assigned_ids

\* the union of the assigned_ids of every CAP site
recipients(w) == UNION { w.cap_sites[i].val.assigned_ids : i \in DOMAIN w.cap_sites }

\* push_due with a slip: the plan is not asked whether it is active
push_due_inactive(w) ==
    ~(w.time < (IF w.push_plan.exec_time = None THEN 0 ELSE Val(w.push_plan.exec_time)))

\* push_due with a slip: the clock is not compared with exec_time
push_due_untimed(w) == w.push_plan.active

\* Controller._try_execute_push, the guards: the plan is due
push_due(w) ==
    /\ w.push_plan.active
    /\ ~(w.time < (IF w.push_plan.exec_time = None THEN 0 ELSE Val(w.push_plan.exec_time)))

\* Controller._try_execute_push, the broadcast: the set of lines logged
push_lines(w) ==
    IF recipients(w) = {}
    THEN { Line("PUSH_NONE", "", "", << >>) }
    ELSE { Line("PUSH", oid, friendly_label(Get(w.objects, oid)),
                <<Val(w.push_plan.brg), Val(w.push_plan.rng)>>) :
             oid \in recipients(w) \cap Keys(w.objects) }

\* try_execute_push with a slip: the plan is left active after the broadcast
try_execute_push_stays_active(w) ==
    IF push_due(w)
    THEN [w |-> w, lines |-> push_lines(w), ran |-> TRUE]
    ELSE [w |-> w, lines |-> {}, ran |-> FALSE]

\* Controller._try_execute_push: [the world after, the set of lines logged,
\* whether the broadcast ran]
try_execute_push(w) ==
    IF push_due(w)
    THEN [w |-> [w EXCEPT !.push_plan.active = FALSE], lines |-> push_lines(w), ran |-> TRUE]
    ELSE [w |-> w, lines |-> {}, ran |-> FALSE]


\* ------------------------------------------------------ command helpers
\* _parse_time_offset, on the time phrases parse_command lets through
parse_time_offset(tstr) ==
    IF tstr = "now" THEN Some(0)
    ELSE IF tstr = "in 30s" THEN Some(PushOffsetS)
    ELSE IF tstr = "in 1m" THEN Some(60)
    ELSE IF tstr = "at +0:30" THEN Some(PushOffsetS)
    ELSE None

\* parse_alt_block with a slip: the high value is taken as given
parse_alt_block_unclamped(lo, hi) ==
    <<(IF lo > 0 THEN lo ELSE 0) * 1000, hi * 1000>>

\* _parse_alt_block on "<lo>-<hi>" (thousands of feet): (lo, hi) in feet
parse_alt_block(lo, hi) ==
    LET lo_ft == (IF lo > 0 THEN lo ELSE 0) * 1000
    IN  <<lo_ft, IF hi * 1000 > lo_ft + 1000 THEN hi * 1000 ELSE lo_ft + 1000>>

Reply(text, args) == [text |-> text, args |-> args]
NoReply == Reply("", << >>)

\* the planar position of the bullseye handle_text starts with (buv)
bull_uv(w) == IF find_bull(w) = None THEN None ELSE uv_of(Val(find_bull(w)))

\* handle_text, cmd == "push_set": the body of the branch, entered with the
\* time phrase in cs and (brg, rng) in target, the slots it reads them from.
\* (parse_command fills the two slots the other way round: see handle_text
\* below for what a "push set ..." text does.)
push_set(w, brg, rng, tstr) ==
    IF bull_uv(w) = None
    THEN [w |-> w, reply |-> Reply("PUSH: UNABLE - no bullseye.", << >>)]
    ELSE IF parse_time_offset(tstr) = None
    THEN [w |-> w, reply |-> Reply("PUSH: UNABLE - bad time", << >>)]
    ELSE LET offs == Val(parse_time_offset(tstr))
         IN  [w |-> [w EXCEPT !.push_plan =
                        [active |-> TRUE, brg |-> Some(brg), rng |-> Some(rng),
                         target_uv |-> bulls_to_uv(bull_uv(w), brg, rng),
                         exec_time |-> Some(w.time + offs * Sub),
                         created_at |-> Some(w.time)]],
              reply |-> Reply("PUSH: set BULLS, exec", <<brg, rng, offs>>)]

\* Controller._push_status_line
push_status_line(w) ==
    IF ~w.push_plan.active THEN Reply("PUSH: no plan.", << >>)
    ELSE LET left == Val(w.push_plan.exec_time) - w.time
         IN  Reply("PUSH: BULLS, exec at T+",
                   <<Val(w.push_plan.brg), Val(w.push_plan.rng),
                     IF left > 0 THEN left \div Sub ELSE 0>>)

\* push_cancel with a slip: only the schedule is cleared, the plan stays armed
push_cancel_keeps_active(w) ==
    [w |-> [w EXCEPT !.push_plan.exec_time = None],
     reply |-> Reply("PUSH: canceled.", << >>)]

\* handle_text, cmd == "push_cancel"
push_cancel(w) ==
    [w |-> [w EXCEPT !.push_plan = PushPlan], reply |-> Reply("PUSH: canceled.", << >>)]

\* push_execute with a slip: exec_time is not moved to the current time
push_execute_keeps_time(w) ==
    IF ~w.push_plan.active
    THEN [w |-> w, reply |-> Reply("PUSH: no plan.", << >>), lines |-> {}, ran |-> FALSE]
    ELSE LET x == try_execute_push(w)
         IN  [w |-> x.w, reply |-> Reply("PUSH: executed.", << >>),
              lines |-> x.lines, ran |-> x.ran]

\* handle_text, cmd == "push_execute": [world, reply, set of lines, ran]
push_execute(w) ==
    IF ~w.push_plan.active
    THEN [w |-> w, reply |-> Reply("PUSH: no plan.", << >>), lines |-> {}, ran |-> FALSE]
    ELSE LET x == try_execute_push([w EXCEPT !.push_plan.exec_time = Some(w.time)])
         IN  [w |-> x.w, reply |-> Reply("PUSH: executed.", << >>),
              lines |-> x.lines, ran |-> x.ran]

\* cap_add_bulls with a slip: a site of the same name keeps its assignments
cap_add_bulls_merges(w, name, brg, rng, radius, lo, hi) ==
    IF bull_uv(w) = None
    THEN [w |-> w, reply |-> Reply("CAP: UNABLE - no bullseye.", << >>)]
    ELSE LET alt == parse_alt_block(lo, hi)
             new == CAPSite(name, bulls_to_uv(bull_uv(w), brg, rng), radius, alt[1], alt[2])
         IN  [w |-> [w EXCEPT !.cap_sites =
                        Put(w.cap_sites, name,
                            IF name \in Keys(w.cap_sites)
                            THEN [new EXCEPT !.assigned_ids =
                                               Get(w.cap_sites, name).assigned_ids]
                            ELSE new)],
              reply |-> Reply("CAP: set at BULLS",
                              <<name, brg, rng, radius, alt[1] \div 1000, alt[2] \div 1000>>)]

\* handle_text, cmd == "cap_add_bulls"
cap_add_bulls(w, name, brg, rng, radius, lo, hi) ==
    IF bull_uv(w) = None
    THEN [w |-> w, reply |-> Reply("CAP: UNABLE - no bullseye.", << >>)]
    ELSE LET alt == parse_alt_block(lo, hi)
         IN  [w |-> [w EXCEPT !.cap_sites =
                        Put(w.cap_sites, name,
                            CAPSite(name, bulls_to_uv(bull_uv(w), brg, rng), radius,
                                    alt[1], alt[2]))],
              reply |-> Reply("CAP: set at BULLS",
                              <<name, brg, rng, radius, alt[1] \div 1000, alt[2] \div 1000>>)]

\* handle_text, cmd == "cap_add_at_fighter"
cap_add_at_fighter(w, name, q, radius, lo, hi) ==
    IF find_callsign_blue(w, q) = None
    THEN [w |-> w, reply |-> Reply("CAP: UNABLE - fighter not found.", << >>)]
    ELSE LET f == Get(w.objects, Val(find_callsign_blue(w, q)))
             alt == parse_alt_block(lo, hi)
         IN  IF uv_of(f) = None
             THEN [w |-> w, reply |-> Reply("CAP: UNABLE - fighter pos unknown.", << >>)]
             ELSE [w |-> [w EXCEPT !.cap_sites =
                            Put(w.cap_sites, name,
                                CAPSite(name, uv_of(f), radius, alt[1], alt[2]))],
                   reply |-> Reply("CAP: set at position",
                                   <<name, friendly_label(f), radius,
                                     alt[1] \div 1000, alt[2] \div 1000>>)]

\* cap_assign with a slip: a site that does not exist is made for the flight
cap_assign_creates(w, q, name) ==
    IF find_callsign_blue(w, q) = None
    THEN [w |-> w, reply |-> Reply("CAP: UNABLE - fighter not found.", << >>)]
    ELSE LET oid == Val(find_callsign_blue(w, q))
             cap == IF name \in Keys(w.cap_sites) THEN Get(w.cap_sites, name)
                    ELSE CAPSite(name, uv_of(Get(w.objects, oid)), 10, 20000, 40000)
         IN  [w |-> [w EXCEPT !.cap_sites =
                        Put(w.cap_sites, name,
                            [cap EXCEPT !.assigned_ids = cap.assigned_ids \cup {oid}])],
              reply |-> IF name \in Keys(w.cap_sites)
                        THEN Reply("CAP: assigned",
                                   <<friendly_label(Get(w.objects, oid)), name>>)
                        ELSE Reply("CAP: not found.", <<name>>)]

\* handle_text, cmd == "cap_assign"
cap_assign(w, q, name) ==
    IF find_callsign_blue(w, q) = None
    THEN [w |-> w, reply |-> Reply("CAP: UNABLE - fighter not found.", << >>)]
    ELSE IF name \notin Keys(w.cap_sites)
    THEN [w |-> w, reply |-> Reply("CAP: not found.", <<name>>)]
    ELSE LET oid == Val(find_callsign_blue(w, q))
             cap == Get(w.cap_sites, name)
         IN  [w |-> [w EXCEPT !.cap_sites =
                        Put(w.cap_sites, name,
                            [cap EXCEPT !.assigned_ids = cap.assigned_ids \cup {oid}])],
              reply |-> Reply("CAP: assigned",
                              <<friendly_label(Get(w.objects, oid)), name>>)]

\* handle_text, cmd == "cap_clear"
cap_clear(w, name) ==
    IF name = "all"
    THEN [w |-> [w EXCEPT !.cap_sites = << >>], reply |-> Reply("CAP: cleared all.", << >>)]
    ELSE IF name \in Keys(w.cap_sites)
    THEN [w |-> [w EXCEPT !.cap_sites = Pop(w.cap_sites, name)],
          reply |-> Reply("CAP: cleared", <<name>>)]
    ELSE [w |-> w, reply |-> Reply("CAP: not found.", <<name>>)]

\* station_show with a slip: the altitude band is not asked
station_show_radius_only(w, cap, oid) ==
    LET o == Get(w.objects, oid)
    IN  IF uv_of(o) = None
        THEN [oid |-> oid, label |-> friendly_label(o), rng |-> None,
              state |-> "pos unknown"]
        ELSE [oid |-> oid, label |-> friendly_label(o),
              rng |-> Some(RoundSqrt(Range2(cap.center_uv, uv_of(o)))),
              state |-> IF Range2(cap.center_uv, uv_of(o)) <= cap.radius_nm * cap.radius_nm
                        THEN "on-station" ELSE "off-station"]

\* the entry of _cap_status_line for the assigned entity oid of the site cap:
\* its label, and "pos unknown" or the rounded range from the centre with
\* on-station / off-station (alt_ft = alt_m * M_TO_FT against the band)
station_show(w, cap, oid) ==
    LET o == Get(w.objects, oid)
        alt_ft_e4 == Val(o.alt) * M_TO_FT_E4
        on == /\ Range2(cap.center_uv, uv_of(o)) <= cap.radius_nm * cap.radius_nm
              /\ o.alt # None
              /\ cap.alt_lo_ft * 10000 <= alt_ft_e4
              /\ alt_ft_e4 <= cap.alt_hi_ft * 10000
    IN  IF uv_of(o) = None
        THEN [oid |-> oid, label |-> friendly_label(o), rng |-> None,
              state |-> "pos unknown"]
        ELSE [oid |-> oid, label |-> friendly_label(o),
              rng |-> Some(RoundSqrt(Range2(cap.center_uv, uv_of(o)))),
              state |-> IF on THEN "on-station" ELSE "off-station"]

\* one(cap) of _cap_status_line with a slip: ids that are not in the registry
\* stay in the assignment set
cap_status_one_keeps(w, cap) ==
    LET live == cap.assigned_ids \cap Keys(w.objects)
    IN  [site |-> cap,
         line |-> [name |-> cap.name, radius |-> cap.radius_nm,
                   lo |-> cap.alt_lo_ft \div 1000, hi |-> cap.alt_hi_ft \div 1000,
                   shows |-> { station_show(w, cap, oid) : oid \in live }]]

\* one(cap) of _cap_status_line: the site after the ids that are not in the
\* registry were discarded, and the text for it (the entries of "assigned:"
\* come in the iteration order of a Python set, which is not modelled: shows
\* is the set of entries, empty for "assigned: none")
cap_status_one(w, cap) ==
    LET live == cap.assigned_ids \cap Keys(w.objects)
    IN  [site |-> [cap EXCEPT !.assigned_ids = live],
         line |-> [name |-> cap.name, radius |-> cap.radius_nm,
                   lo |-> cap.alt_lo_ft \div 1000, hi |-> cap.alt_hi_ft \div 1000,
                   shows |-> { station_show(w, cap, oid) : oid \in live }]]

\* Controller._cap_status_line (handle_text, cmd == "cap_status"); name is ""
\* for `cap status` without a name
cap_status(w, name) ==
    IF w.cap_sites = << >>
    THEN [w |-> w, reply |-> Reply("CAP: none.", << >>)]
    ELSE IF name # ""
    THEN IF name \notin Keys(w.cap_sites)
         THEN [w |-> w, reply |-> Reply("CAP: not found.", <<name>>)]
         ELSE LET r == cap_status_one(w, Get(w.cap_sites, name))
              IN  [w |-> [w EXCEPT !.cap_sites = Put(w.cap_sites, name, r.site)],
                   reply |-> Reply("CAP: status", <<r.line>>)]
    ELSE [w |-> [w EXCEPT !.cap_sites =
                    [i \in DOMAIN w.cap_sites |->
                       [key |-> w.cap_sites[i].key,
                        val |-> cap_status_one(w, w.cap_sites[i].val).site]]],
          reply |-> Reply("CAP: status",
                          [i \in DOMAIN w.cap_sites |->
                             cap_status_one(w, w.cap_sites[i].val).line])]

\* ------------------------------------------------------ grouping and picture
\* Controller.grp_range_nm, Controller.grp_alt_ft
GRP_RANGE_NM == 5
GRP_ALT_FT == 2000
\* aspect thresholds (degrees)
HOT_MAX == 45
BEAM_MIN == 70
BEAM_MAX == 110
COLD_MIN == 135

\* norm_head
norm_head(h) == IF h = None THEN None ELSE Some(((Val(h) % 360) + 360) % 360)

\* dir_word_from_heading for the heading num/den (a mean of whole degrees):
\* int(((hdg % 360) + 22.5) // 45) % 8
Dirs == <<"north", "northeast", "east", "southeast",
          "south", "southwest", "west", "northwest">>
dir_word_from_heading(num, den) ==
    Dirs[(((((2 * num) % (720 * den)) + 45 * den) \div (90 * den)) % 8) + 1]

\* aspect_word with a slip: a difference of exactly BEAM_MIN is not yet a beam
aspect_word_late_beam(hdg, brg) ==
    IF hdg = None THEN <<"UNK">>
    ELSE LET n == Val(hdg).den
             x == (Val(hdg).num - n * brg + 540 * n) % (360 * n)
             diff == IF x >= 180 * n THEN x - 180 * n ELSE 180 * n - x
             dir == dir_word_from_heading(Val(hdg).num, n)
         IN  IF BEAM_MIN * n < diff /\ diff <= BEAM_MAX * n THEN <<"beam", dir>>
             ELSE IF diff < HOT_MAX * n THEN <<"HOT">>
             ELSE IF diff > COLD_MIN * n THEN <<"COLD">>
             ELSE <<"flank", dir>>

\* aspect_word: hdg is None or the heading num/den, brg whole degrees;
\* diff = abs(((hdg - brg + 540) % 360) - 180)
aspect_word(hdg, brg) ==
    IF hdg = None THEN <<"UNK">>
    ELSE LET n == Val(hdg).den
             x == (Val(hdg).num - n * brg + 540 * n) % (360 * n)
             diff == IF x >= 180 * n THEN x - 180 * n ELSE 180 * n - x
             dir == dir_word_from_heading(Val(hdg).num, n)
         IN  IF BEAM_MIN * n <= diff /\ diff <= BEAM_MAX * n THEN <<"beam", dir>>
             ELSE IF diff < HOT_MAX * n THEN <<"HOT">>
             ELSE IF diff > COLD_MIN * n THEN <<"COLD">>
             ELSE <<"flank", dir>>

\* `alt_m*M_TO_FT if alt_m is not None else None`, then `(a["alt_ft"] or 0)`:
\* feet times 10000
AltFtE4(o) == IF o.alt = None THEN 0 ELSE Val(o.alt) * M_TO_FT_E4

\* close(a, b) of group_contacts
close(a, b) ==
    LET dz == AltFtE4(a) - AltFtE4(b)
    IN  /\ Range2(a.uv, b.uv) <= GRP_RANGE_NM * GRP_RANGE_NM
        /\ (IF dz >= 0 THEN dz ELSE 0 - dz) <= GRP_ALT_FT * 10000

\* the `while changed` loop of group_contacts: the indices the cluster ends with
RECURSIVE Grow(_, _)
Grow(items, cluster) ==
    LET more == { j \in (DOMAIN items) \ cluster :
                    \E k \in cluster : close(items[j], items[k]) }
    IN  IF more = {} THEN cluster ELSE Grow(items, cluster \cup more)

\* sorted(cluster)
RECURSIVE Sorted(_)
Sorted(S) ==
    IF S = {} THEN << >>
    ELSE LET m == CHOOSE i \in S : \A j \in S : i <= j
         IN  <<m>> \o Sorted(S \ {m})

\* the `for i in range(len(items))` loop of group_contacts
RECURSIVE GroupsFrom(_, _, _)
GroupsFrom(items, i, used) ==
    IF i > Len(items) THEN << >>
    ELSE IF i \in used THEN GroupsFrom(items, i + 1, used)
    ELSE LET cluster == Grow(items, {i})
             members == Sorted(cluster)
         IN  << [k \in DOMAIN members |-> items[members[k]]] >>
             \o GroupsFrom(items, i + 1, used \cup cluster)

\* group_contacts with a slip: a cluster takes only the contacts close to
\* its first member
RECURSIVE GroupsOfFirst(_, _, _)
GroupsOfFirst(items, i, used) ==
    IF i > Len(items) THEN << >>
    ELSE IF i \in used THEN GroupsOfFirst(items, i + 1, used)
    ELSE LET cluster == {i} \cup { j \in (DOMAIN items) \ used : close(items[j], items[i]) }
             members == Sorted(cluster)
         IN  << [k \in DOMAIN members |-> items[members[k]]] >>
             \o GroupsOfFirst(items, i + 1, used \cup cluster)
group_contacts_star(contacts) ==
    GroupsOfFirst(SelectSeq(contacts, LAMBDA o : uv_of(o) # None), 1, {})

\* group_contacts: the groups, each a list of contacts, of the contacts that
\* have a planar position
group_contacts(contacts) ==
    GroupsFrom(SelectSeq(contacts, LAMBDA o : uv_of(o) # None), 1, {})

\* int(round(x/1000.0)) of an altitude in feet (x metres here)
Angels(alt_m) == (alt_m * M_TO_FT_E4 + 5000000) \div 10000000

\* int(round(rng_nm)) of the range sqrt(d2)/size, ties to the even integer
RoundRange(d2, size) ==
    CHOOSE r \in 0..(d2 + 1) :
        LET lo == (2 * r - 1) * (2 * r - 1) * size * size
            hi == (2 * r + 1) * (2 * r + 1) * size * size
        IN  /\ r = 0 \/ lo <= 4 * d2
            /\ 4 * d2 <= hi
            /\ (r > 0 /\ 4 * d2 = lo) => r % 2 = 0
            /\ 4 * d2 = hi => r % 2 = 0

\* sum(...) of a list of numbers
RECURSIVE SumSeq(_)
SumSeq(q) == IF q = << >> THEN 0 ELSE Head(q) + SumSeq(Tail(q))

\* the identity of one contact in summarize_groups
ident_of(o, wf) ==
    IF wf /\ coalition_of(o) = "Red" THEN "Hostile"
    ELSE IF coalition_of(o) = "Blue" THEN "Friendly"
    ELSE IF coalition_of(o) = "Red" THEN "Bandit"
    ELSE "Bogey"

\* majority with a slip: among equals the identity counted last wins
majority_last(g, wf) ==
    LET count(id) == Cardinality({ k \in DOMAIN g : ident_of(g[k], wf) = id })
        firstAt(id) == CHOOSE k \in DOMAIN g :
                          /\ ident_of(g[k], wf) = id
                          /\ \A j \in DOMAIN g : ident_of(g[j], wf) = id => k <= j
        ids == { ident_of(g[k], wf) : k \in DOMAIN g }
    IN  CHOOSE id \in ids :
          \A other \in ids \ {id} :
             \/ count(id) > count(other)
             \/ count(id) = count(other) /\ firstAt(id) > firstAt(other)

\* max(id_counts.items(), key=count)[0]: the identity counted most often, the
\* one counted first among equals
majority(g, wf) ==
    LET count(id) == Cardinality({ k \in DOMAIN g : ident_of(g[k], wf) = id })
        firstAt(id) == CHOOSE k \in DOMAIN g :
                          /\ ident_of(g[k], wf) = id
                          /\ \A j \in DOMAIN g : ident_of(g[j], wf) = id => k <= j
        ids == { ident_of(g[k], wf) : k \in DOMAIN g }
    IN  CHOOSE id \in ids :
          \A other \in ids \ {id} :
             \/ count(id) > count(other)
             \/ count(id) = count(other) /\ firstAt(id) < firstAt(other)

\* one entry of summarize_groups.  The range of the centroid is carried as
\* rng2/size^2 (rng2 the square of the summed offsets), the mean heading as
\* num/den.  The bearing is that of the summed offsets (see Bearing).
summary_of(g, buv, wf) ==
    LET size == Len(g)
        sx == SumSeq([k \in DOMAIN g |-> g[k].uv[1]]) - size * buv[1]
        sy == SumSeq([k \in DOMAIN g |-> g[k].uv[2]]) - size * buv[2]
        alts == { Val(g[k].alt) : k \in { j \in DOMAIN g : g[j].alt # None } }
        hdgs == SelectSeq(g, LAMBDA o : o.hdg # None)
    IN  [size |-> size,
         brg |-> Bearing(sx, sy),
         rng2 |-> sx * sx + sy * sy,
         lo_ang |-> IF alts = {} THEN None
                    ELSE Some(Angels(CHOOSE a \in alts : \A b \in alts : a <= b)),
         hi_ang |-> IF alts = {} THEN None
                    ELSE Some(Angels(CHOOSE a \in alts : \A b \in alts : a >= b)),
         aspect |-> aspect_word(
                      IF hdgs = << >> THEN None
                      ELSE Some([num |-> SumSeq([k \in DOMAIN hdgs |->
                                                   Val(norm_head(hdgs[k].hdg))]),
                                 den |-> Len(hdgs)]),
                      Bearing(sx, sy)),
         id |-> majority(g, wf)]

\* s["rng_nm"] of a is at most that of b
NoFarther(a, b) == a.rng2 * b.size * b.size <= b.rng2 * a.size * a.size

\* summaries.sort(key=rng_nm): a stable sort, nearest first
RECURSIVE SortByRange(_, _)
SortByRange(done, todo) ==
    IF todo = << >> THEN done
    ELSE LET s == Head(todo)
             k == Cardinality({ i \in DOMAIN done : NoFarther(done[i], s) })
         IN  SortByRange(SubSeq(done, 1, k) \o <<s>> \o SubSeq(done, k + 1, Len(done)),
                         Tail(todo))

\* summarize_groups with a slip: the summaries are left in the order of the groups
summarize_groups_unsorted(groups, buv, wf) ==
    [k \in DOMAIN groups |-> summary_of(groups[k], buv, wf)]

\* summarize_groups
summarize_groups(groups, buv, wf) ==
    SortByRange(<< >>, [k \in DOMAIN groups |-> summary_of(groups[k], buv, wf)])

\* size_word
size_word(n) ==
    IF n = 1 THEN <<"single">>
    ELSE IF n = 2 THEN <<"two-ship">>
    ELSE IF n = 3 THEN <<"three-ship">>
    ELSE IF n = 4 THEN <<"four-ship">>
    ELSE <<n, "-ship">>

\* str.lower() of an identity
Lower(id) ==
    IF id = "Hostile" THEN "hostile"
    ELSE IF id = "Bandit" THEN "bandit"
    ELSE IF id = "Bogey" THEN "bogey"
    ELSE "friendly"

PictureLabels ==
    <<"Nearest group", "Second group", "Third group", "Fourth group", "Fifth group">>

\* format_picture: "PICTURE: CLEAN." or the lead ("single group", "two
\* groups", "three groups", "<n> groups": its number n) and, for each of the
\* first five groups of interest, the fields of its sentence
format_picture(summaries) ==
    LET interest == SelectSeq(summaries, LAMBDA s : s.id \in {"Bogey", "Bandit", "Hostile"})
        n == Len(interest)
    IN  IF n = 0 THEN Reply("PICTURE: CLEAN.", << >>)
        ELSE Reply("PICTURE: <lead>. <groups>",
                   << n,
                      [i \in 1..(IF n < 5 THEN n ELSE 5) |->
                         LET g == interest[i]
                         IN  [label |-> PictureLabels[i],
                              brg |-> g.brg,
                              rng |-> RoundRange(g.rng2, g.size),
                              size |-> size_word(g.size),
                              heavy |-> g.size >= 3,
                              id |-> Lower(g.id),
                              angels |-> IF g.lo_ang = None \/ g.hi_ang = None THEN <<"UNK">>
                                         ELSE IF g.lo_ang = g.hi_ang THEN <<Val(g.lo_ang)>>
                                         ELSE <<Val(g.lo_ang), Val(g.hi_ang)>>,
                              aspect |-> g.aspect]] >>)

\* `f"{cs}, {line}" if cs else line`: the reply with the callsign in front
Addressed(cs, r) == IF cs = "" THEN r ELSE Reply(r.text, <<cs>> \o r.args)

\* handle_text, cmd == "picture"
picture(w, wf, cs) ==
    LET interest == reds(w) \o unks(w)
    IN  Addressed(cs,
          IF bull_uv(w) # None /\ interest # << >>
          THEN format_picture(summarize_groups(group_contacts(interest), bull_uv(w), wf))
          ELSE IF interest = << >> THEN Reply("PICTURE: CLEAN.", << >>)
          ELSE Reply("PICTURE: no bullseye available yet.", << >>))

\* ------------------------------------------------- fighter-centric requests
\* `find_callsign(blues, cs) if cs else (blues[0] if blues else None)`: the id
\* of the friendly reference, None when there is none
friendly_ref(w, cs) ==
    LET blueAt == { i \in DOMAIN w.objects :
                      IsAirType(w.objects[i].val.Type) /\ coalition_of(w.objects[i].val) = "Blue" }
    IN  IF cs # "" THEN find_callsign_blue(w, cs)
        ELSE IF blueAt = {} THEN None
        ELSE Some(w.objects[CHOOSE i \in blueAt : \A j \in blueAt : i <= j].key)

\* `cs or 'Fighter'`
CsOrFighter(cs) == IF cs = "" THEN "Fighter" ELSE cs

\* nearest_threat_to_fighter: the first of the nearest Red or unknown contacts
\* with a planar position, None when the fighter or every contact has none
nearest_threat_to_fighter(w, fr) ==
    LET cands == SelectSeq(reds(w) \o unks(w), LAMBDA o : uv_of(o) # None)
    IN  IF uv_of(fr) = None \/ cands = << >> THEN None
        ELSE Some(cands[CHOOSE i \in DOMAIN cands :
                     \A j \in DOMAIN cands :
                        \/ Range2(fr.uv, cands[i].uv) < Range2(fr.uv, cands[j].uv)
                        \/ /\ Range2(fr.uv, cands[i].uv) = Range2(fr.uv, cands[j].uv)
                           /\ i <= j])

\* WorldState.nearest_tanker: the first Blue contact with a tanker name
nearest_tanker(w) ==
    LET tankers == SelectSeq(blues(w), LAMBDA o : HasTankerHint(o.Name))
    IN  IF tankers = << >> THEN None ELSE Some(tankers[1])

\* braa_from_fighter_to_target: bearing, range, altitude phrase and aspect
braa_from_fighter_to_target(fr, tgt) ==
    IF uv_of(fr) = None \/ uv_of(tgt) = None THEN None
    ELSE LET br == brg_rng_from_xy(fr.uv, tgt.uv)
         IN  Some(<<br.brg, RoundSqrt(br.d2), threat_alt_phrase(tgt.alt),
                    aspect_word(IF tgt.hdg = None THEN None
                                ELSE Some([num |-> Val(norm_head(tgt.hdg)), den |-> 1]),
                                br.brg)>>)

\* vector_from_fighter_to_uv: "VECTOR <brg>, <rng> miles.", None without a position
vector_from_fighter_to_uv(fr, tuv) ==
    IF uv_of(fr) = None \/ tuv = None THEN None
    ELSE Some(<<brg_rng_from_xy(fr.uv, tuv).brg, RoundSqrt(brg_rng_from_xy(fr.uv, tuv).d2)>>)

\* alpha_check_to_uv: "ALPHA CHECK: BULLS <brg> for <rng>.", None without a
\* bullseye or a position
alpha_check_to_uv(w, tuv) ==
    IF bull_uv(w) = None \/ tuv = None THEN None
    ELSE Some(<<brg_rng_from_xy(bull_uv(w), tuv).brg,
                RoundSqrt(brg_rng_from_xy(bull_uv(w), tuv).d2)>>)

\* `tr.home_uv if tr and tr.home_uv else uv_of(fr)` for the fighter with id oid
home_or_position(w, oid) ==
    IF oid \in DOMAIN w.tracks /\ w.tracks[oid].home_uv # None
    THEN w.tracks[oid].home_uv
    ELSE uv_of(Get(w.objects, oid))

\* the identity word of declare
declare_ident(o) ==
    IF coalition_of(o) = "Blue" THEN "Friendly"
    ELSE IF coalition_of(o) = "Red" THEN "Bandit"
    ELSE "Bogey"

\* handle_text, cmd == "bogeydope"
bogeydope(w, cs) ==
    IF friendly_ref(w, cs) = None
    THEN Reply("UNABLE: no friendly reference available.", <<CsOrFighter(cs)>>)
    ELSE LET fr == Get(w.objects, Val(friendly_ref(w, cs)))
             tgt == nearest_threat_to_fighter(w, fr)
         IN  IF tgt = None THEN Reply("PICTURE: CLEAN.", <<friendly_label(fr)>>)
             ELSE Reply("BOGEY DOPE: BRAA",
                        <<friendly_label(fr), braa_from_fighter_to_target(fr, Val(tgt))>>)

\* handle_text, cmd == "declare"
declare(w, cs) ==
    IF friendly_ref(w, cs) = None
    THEN Reply("UNABLE: declare (no friendly reference).", <<CsOrFighter(cs)>>)
    ELSE LET fr == Get(w.objects, Val(friendly_ref(w, cs)))
             tgt == nearest_threat_to_fighter(w, fr)
         IN  IF tgt = None THEN Reply("DECLARE: no factor.", << >>)
             ELSE Reply("DECLARE: <ident>.", <<declare_ident(Val(tgt))>>)

\* handle_text, cmd == "declare_bulls": the contact nearest to the point, if
\* within 6 NM of it
declare_bulls(w, brg, rng) ==
    IF bull_uv(w) = None THEN Reply("DECLARE: no bullseye available.", << >>)
    ELSE LET t == bulls_to_uv(bull_uv(w), brg, rng)
             cands == SelectSeq(reds(w) \o unks(w) \o blues(w), LAMBDA o : uv_of(o) # None)
             best == cands[CHOOSE i \in DOMAIN cands :
                        \A j \in DOMAIN cands :
                           \/ Range2(t, cands[i].uv) < Range2(t, cands[j].uv)
                           \/ /\ Range2(t, cands[i].uv) = Range2(t, cands[j].uv)
                              /\ i <= j]
         IN  IF cands = << >> \/ Range2(t, best.uv) > 6 * 6
             THEN Reply("DECLARE: no factor.", << >>)
             ELSE Reply("DECLARE: <ident>.", <<declare_ident(best)>>)

\* handle_text, cmd == "snap"
snap(w, cs) ==
    IF friendly_ref(w, cs) = None
    THEN Reply("UNABLE: snap (no friendly reference).", <<CsOrFighter(cs)>>)
    ELSE LET fr == Get(w.objects, Val(friendly_ref(w, cs)))
             tgt == nearest_threat_to_fighter(w, fr)
         IN  IF tgt = None THEN Reply("SNAP: no factor.", <<friendly_label(fr)>>)
             ELSE LET line == vector_from_fighter_to_uv(fr, uv_of(Val(tgt)))
                  IN  IF line = None THEN Reply("UNABLE: snap.", << >>)
                      ELSE Reply("VECTOR <brg>, <rng> miles.", <<friendly_label(fr)>> \o Val(line))

\* handle_text, cmd == "vector": target is "home", "tanker" or a callsign
vector(w, cs, target) ==
    IF friendly_ref(w, cs) = None
    THEN Reply("UNABLE: vector (no friendly reference).", <<CsOrFighter(cs)>>)
    ELSE LET oid == Val(friendly_ref(w, cs))
             fr == Get(w.objects, oid)
             said(line) == Reply("VECTOR <brg>, <rng> miles.", <<friendly_label(fr)>> \o Val(line))
         IN  IF target = "home"
             THEN LET line == vector_from_fighter_to_uv(fr, home_or_position(w, oid))
                  IN  IF line = None THEN Reply("UNABLE: vector home.", << >>) ELSE said(line)
             ELSE IF target = "tanker"
             THEN IF nearest_tanker(w) = None THEN Reply("UNABLE: no tanker.", << >>)
                  ELSE LET line == vector_from_fighter_to_uv(fr, uv_of(Val(nearest_tanker(w))))
                       IN  IF line = None THEN Reply("UNABLE: vector tanker.", << >>)
                           ELSE said(line)
             ELSE IF find_callsign_blue(w, target) = None
             THEN Reply("UNABLE: target not found.", << >>)
             ELSE LET tgt == Get(w.objects, Val(find_callsign_blue(w, target)))
                      line == vector_from_fighter_to_uv(fr, uv_of(tgt))
                  IN  IF line = None THEN Reply("UNABLE: vector.", << >>) ELSE said(line)

\* handle_text, cmd == "alpha": target is "" (own position), "home" or "tanker"
alpha(w, cs, target) ==
    IF bull_uv(w) = None THEN Reply("ALPHA CHECK: no bullseye available.", << >>)
    ELSE LET fr == friendly_ref(w, cs)
             tgt_uv == IF target = "home"
                       THEN (IF fr = None THEN None ELSE home_or_position(w, Val(fr)))
                       ELSE IF target = "tanker"
                       THEN (IF nearest_tanker(w) = None THEN None
                             ELSE uv_of(Val(nearest_tanker(w))))
                       ELSE (IF fr = None THEN None ELSE uv_of(Get(w.objects, Val(fr))))
             line == alpha_check_to_uv(w, tgt_uv)
             who == IF cs # "" THEN cs
                    ELSE IF fr # None THEN friendly_label(Get(w.objects, Val(fr)))
                    ELSE ""
         IN  IF line # None
             THEN Addressed(who, Reply("ALPHA CHECK: BULLS <brg> for <rng>.", Val(line)))
             ELSE Reply("UNABLE: alpha check.", <<IF who = "" THEN "Fighter" ELSE who>>)

\* ----------------------------------------------------------------- state
VARIABLES
    ws,                \* Controller.ws, the WorldState
    last_emit_tick,    \* Controller._last_emit_tick
    known_ids,         \* Controller._known_ids
    last_merged_tick,  \* Controller._last_merged_tick
    event,             \* the telemetry event or the command the last step processed
    reply,             \* what handle_text returned in the last step
    emitted,           \* the lines the last step appended to console_log
    \* history (not state of the program)
    pushRuns,          \* broadcasts of _try_execute_push since the last accepted push set
    atSet,             \* at the last accepted push set: the exec_time it armed, whether
                       \* it replaced an active plan with another target and another
                       \* exec_time, recipients(ws) then and its target; None before
                       \* the first
    mergedTicks,       \* the ticks of the last two MERGED lines, oldest first
    defendCount,       \* per object id, the DEFEND lines logged for it
    \* the two threads, for the specification that interleaves their statements
    ing,               \* the ingest thread inside _try_execute_push: its place and its `p`
    cmd,               \* the command thread inside handle_text: its place and its `p`
    weapons_free,      \* Controller.weapons_free
    link               \* Controller.sock, connected, _stop and _thread, and the sockets

vars == <<ws, last_emit_tick, known_ids, last_merged_tick, event, reply, emitted,
          pushRuns, atSet, mergedTicks, defendCount, ing, cmd, weapons_free, link>>

\* a thread between two events or two commands.  `pc` is the statement it is
\* at; `detached` tells that the local `p` of _try_execute_push is no longer
\* ws.push_plan (push cancel has put a new PushPlan there) and then `p` is the
\* object the thread still holds; `arg` holds the locals of push set
Idle == [pc |-> "idle", detached |-> FALSE, p |-> PushPlan, arg |-> << >>]
Sequential == ing = Idle /\ cmd = Idle /\ UNCHANGED <<ing, cmd>>

Event(kind, args) == [kind |-> kind, args |-> args]

\* Controller.__init__: sock = None (0), connected = False, _stop clear,
\* _thread = None.  Sockets are numbered in the order connect() makes them;
\* `closed` holds those this process has closed, and `closing` says that
\* stop() has set _stop and not yet closed the socket.  The ingest thread is at
\* "recv" (inside sock.recv of iter_lines), at "line" (iter_lines has yielded
\* a line) or "done" (_run_loop has returned), reading the socket it was
\* started with.  Only the lifecycle specification changes this variable; the
\* others process the events of a stream that is being read.
NoLink ==
    [sock |-> 0, connected |-> FALSE, stop |-> FALSE, closing |-> FALSE,
     closed |-> {}, made |-> 0,
     thread |-> [state |-> "none", sock |-> 0]]

Bump(n) == IF n < CountCap THEN n + 1 ELSE n

\* int(self.ws.time * self.hz)
TickOf(t) == (t * HZ) \div Sub

IdsOf(lines, kind) == { lines[i].oid : i \in { j \in DOMAIN lines : lines[j].kind = kind } }

Init ==
    /\ ws = WorldState
    /\ last_emit_tick = InitLastEmitTick
    /\ known_ids = {}
    /\ last_merged_tick = InitLastMergedTick
    /\ event = Event("init", << >>)
    /\ reply = NoReply
    /\ emitted = << >>
    /\ pushRuns = 0
    /\ atSet = None
    /\ mergedTicks = << >>
    /\ defendCount = << >>
    /\ ing = Idle
    /\ cmd = Idle
    /\ weapons_free = FALSE
    /\ link = NoLink

\* ------------------------------------------------------------ ingest loop
\* _run_loop, ACTION_TIME
TimeEvent(ts) ==
    LET now == IF ts # 0 THEN ts ELSE ws.time
        w1 == [ws EXCEPT !.time = now,
                         !.tracks = [oid \in DOMAIN ws.tracks |->
                                       update_speed(ws.tracks[oid], now)]]
        w2 == cull_stale(w1, now)
        tick == TickOf(now)
        m == check_merged(w2, tick, last_merged_tick)
        x == try_execute_push(w2)
    IN  /\ Sequential
        /\ event' = Event("TIME", <<ts>>)
        /\ reply' = NoReply
        /\ UNCHANGED <<known_ids, atSet, defendCount, weapons_free, link>>
        /\ IF tick # last_emit_tick
           THEN /\ last_emit_tick' = tick
                /\ last_merged_tick' = m.last_merged_tick
                /\ ws' = x.w
                /\ \E q \in Orderings(x.lines) : emitted' = m.lines \o q
                /\ pushRuns' = IF x.ran THEN Bump(pushRuns) ELSE pushRuns
                /\ mergedTicks' = IF m.lines = << >> THEN mergedTicks
                                  ELSE IF mergedTicks = << >> THEN <<tick>>
                                  ELSE <<mergedTicks[Len(mergedTicks)], tick>>
           ELSE /\ ws' = w2
                /\ emitted' = << >>
                /\ UNCHANGED <<last_emit_tick, last_merged_tick, pushRuns, mergedTicks>>

\* _run_loop, ACTION_REMOVE
RemoveEvent(oid) ==
    /\ Sequential
    /\ ws' = remove(ws, oid)
    /\ event' = Event("REMOVE", <<oid>>)
    /\ reply' = NoReply
    /\ emitted' = << >>
    /\ UNCHANGED <<last_emit_tick, known_ids, last_merged_tick,
                   pushRuns, atSet, mergedTicks, defendCount, weapons_free, link>>

\* _run_loop, ACTION_UPDATE
UpdateEvent(oid, obj) ==
    LET c == check_missile_birth(ws, known_ids, oid, obj)
    IN  /\ Sequential
        /\ known_ids' = c.known_ids
        /\ emitted' = c.lines
        /\ ws' = upsert(ws, oid, obj, ws.time)
        /\ event' = Event("UPDATE", <<oid>>)
        /\ reply' = NoReply
        /\ defendCount' =
             IF c.lines = << >> THEN defendCount
             ELSE With(defendCount, oid,
                       Bump(IF oid \in DOMAIN defendCount THEN defendCount[oid] ELSE 0))
        /\ UNCHANGED <<last_emit_tick, last_merged_tick, pushRuns, atSet, mergedTicks,
                       weapons_free, link>>

\* ------------------------------------------------------------ the dispatcher
\* A text is a sequence of words, with Blank for white space in front of the
\* first word and after the last; one blank stands between two words.  No word
\* of the vocabulary holds a command word inside a longer word, and none holds
\* a comma, so the regular expressions of parse_command match word by word.
Blank == " "

RECURSIVE LStrip(_)
LStrip(s) == IF s # << >> /\ Head(s) = Blank THEN LStrip(Tail(s)) ELSE s

RECURSIVE RStrip(_)
RStrip(s) ==
    IF s # << >> /\ s[Len(s)] = Blank THEN RStrip(SubSeq(s, 1, Len(s) - 1)) ELSE s

\* `t = (text or "").strip()`
Strip(text) == RStrip(LStrip(text))

\* `tl = re.sub(r'\s+', ' ', t.lower())`, word by word
LowerWord(x) ==
    IF x = "Hello" THEN "hello"
    ELSE IF x = "Viper11" THEN "viper11"
    ELSE IF x = "Picture" THEN "picture"
    ELSE x
LowerWords(s) == [i \in DOMAIN s |-> LowerWord(s[i])]

\* the string a sequence of words spells
Phrases ==
    { <<<<"Hello", "there">>, "Hello there">>, <<<<"alpha", "to">>, "alpha to">>,
      <<<<"in", "30s">>, "in 30s">>, <<<<"at", "+0:30">>, "at +0:30">>,
      <<<<"cap", "add", "cap1">>, "cap add cap1">>,
      <<<<"push", "set">>, "push set">>, <<<<"home", "plate">>, "home plate">>,
      <<<<"declare", "5", "for", "20">>, "declare 5 for 20">>,
      <<<<"cap", "status", "+0:30">>, "cap status +0:30">> }
TextOf(s) ==
    IF s = << >> THEN ""
    ELSE IF Len(s) = 1 THEN s[1]
    ELSE (CHOOSE p \in Phrases : p[1] = s)[2]

\* the numerals of the vocabulary: the word, int(word), the number of digits
Numerals ==
    { <<"090", 90, 3>>, <<"180", 180, 3>>, <<"20", 20, 2>>, <<"10", 10, 2>>, <<"5", 5, 1>> }
IsDigits(x, lo, hi) == \E n \in Numerals : n[1] = x /\ lo <= n[3] /\ n[3] <= hi
IntOf(x) == (CHOOSE n \in Numerals : n[1] = x)[2]

\* `\d{1,2}-\d{1,2}`: the word and its two numbers
AltBlocks == { <<"20-40", 20, 40>>, <<"30-20", 30, 20>> }
IsAltBlock(x) == \E a \in AltBlocks : a[1] = x
AltOf(x) == CHOOSE a \in AltBlocks : a[1] = x

\* `[a-z0-9_\-]+` on a whole word
IsSiteName(x) == x \notin { "+0:30", "/", Blank }

EndsWith(s, suf) ==
    Len(s) >= Len(suf) /\ SubSeq(s, Len(s) - Len(suf) + 1, Len(s)) = suf

\* str.find on words: the place of the first occurrence of kw, 0 for none
FindWords(s, kw) ==
    LET at == { i \in 1..(Len(s) - Len(kw) + 1) : SubSeq(s, i, i + Len(kw) - 1) = kw }
    IN  IF at = {} THEN 0 ELSE CHOOSE i \in at : \A j \in at : i <= j

\* `callsign or None`
OrNone(s) == IF s = << >> THEN None ELSE Some(s)

\* `t[:tl.find(kw)].strip(" ,") if tl.find(kw) > 0 else None`, then `or None`
CallsignBefore(t, tl, kw) ==
    IF FindWords(tl, kw) > 1 THEN OrNone(SubSeq(t, 1, FindWords(tl, kw) - 1)) ELSE None

Command(kind, cs, target) == [cmd |-> kind, cs |-> cs, target |-> target]

\* `(alpha\s*check|alphacheck|alpha)\s*(to\s+)?(home(?:\s*plate)?|home\s*base|tanker)?$`:
\* the endings it matches, as [head, rest, key], key being group 3 without blanks
AlphaShapes ==
    LET heads == { <<"alpha", "check">>, <<"alphacheck">>, <<"alpha">> }
        tgts == { [w |-> <<"home">>, key |-> "home"],
                  [w |-> <<"home", "plate">>, key |-> "homeplate"],
                  [w |-> <<"homeplate">>, key |-> "homeplate"],
                  [w |-> <<"home", "base">>, key |-> "homebase"],
                  [w |-> <<"homebase">>, key |-> "homebase"],
                  [w |-> <<"tanker">>, key |-> "tanker"] }
    IN  { [head |-> h, rest |-> << >>, key |-> None] : h \in heads }
        \cup { [head |-> h, rest |-> to \o g.w, key |-> Some(g.key)] :
                 h \in heads, to \in { << >>, <<"to">> }, g \in tgts }

\* the optional tails of `cap add`: `(?:\s+radius\s+(\d{1,3}))?(?:\s+alt\s+(\d{1,2}-\d{1,2}))?$`
CapTail(s) ==
    IF s = << >> THEN Some([radius |-> 10, alt |-> "20-40"])
    ELSE IF Len(s) = 2 /\ s[1] = "radius" /\ IsDigits(s[2], 1, 3)
    THEN Some([radius |-> IntOf(s[2]), alt |-> "20-40"])
    ELSE IF Len(s) = 2 /\ s[1] = "alt" /\ IsAltBlock(s[2])
    THEN Some([radius |-> 10, alt |-> s[2]])
    ELSE IF /\ Len(s) = 4 /\ s[1] = "radius" /\ IsDigits(s[2], 1, 3)
            /\ s[3] = "alt" /\ IsAltBlock(s[4])
    THEN Some([radius |-> IntOf(s[2]), alt |-> s[4]])
    ELSE None

\* `bulls <brg> for|/ <rng>` at the places i..i+3 of s
IsBullsCall(s, i) ==
    /\ Len(s) >= i + 3
    /\ s[i] = "bulls" /\ IsDigits(s[i + 1], 2, 3)
    /\ s[i + 2] \in { "for", "/" } /\ IsDigits(s[i + 3], 1, 3)

\* `(now|in\s+\d+\s*[ms]?|at\s+\+\d+(?::\d{1,2})?)$`
IsTimePhrase(s) ==
    \/ s = <<"now">>
    \/ Len(s) = 2 /\ s[1] = "in" /\ s[2] \in { "30s", "1m", "20" }
    \/ Len(s) = 2 /\ s[1] = "at" /\ s[2] \in { "+0:30" }

\* parse_command: the rules in the order of the code, the first that matches
parse_command(text) ==
    LET t == Strip(text)
        tl == LowerWords(t)
        n == Len(tl)
        cut(k) == OrNone(SubSeq(t, 1, n - k))
        alphas == { a \in AlphaShapes : EndsWith(tl, a.head \o a.rest) }
        alpha1 == CHOOSE a \in alphas :
                    \A b \in alphas : Len(a.head \o a.rest) >= Len(b.head \o b.rest)
        vecAt == { i \in 1..(n - 1) : tl[i] = "vector" }
        vec1 == CHOOSE i \in vecAt : \A j \in vecAt : i <= j
        vecRest == SubSeq(tl, vec1 + 1, n)
        fighterCs == { k \in 1..(n - 5) : CapTail(SubSeq(tl, 6 + k, n)) # None }
        cs1 == CHOOSE k \in fighterCs : \A j \in fighterCs : k <= j
    IN  IF tl \in { <<"who">>, <<"callsigns">>, <<"list">> }
        THEN Command("who", None, None)
        ELSE IF tl \in { <<"who", "all">>, <<"callsigns", "all">>, <<"list", "all">> }
        THEN Command("whoall", None, None)
        ELSE IF tl \in { <<"who", "unknown">>, <<"callsigns", "unknown">>,
                         <<"list", "unknown">> }
        THEN Command("whounk", None, None)
        ELSE IF alphas # {}
        THEN Command("alpha", CallsignBefore(t, tl, alpha1.head), alpha1.key)
        ELSE IF vecAt # {}
        THEN Command("vector", CallsignBefore(t, tl, <<"vector">>),
                     Some(TextOf(IF Len(vecRest) > 1 /\ vecRest[1] = "to"
                                 THEN Tail(vecRest) ELSE vecRest)))
        ELSE IF EndsWith(tl, <<"snap", "threat">>)
        THEN Command("snap", cut(2), None)
        ELSE IF EndsWith(tl, <<"snap">>)
        THEN Command("snap", cut(1), None)
        ELSE IF n >= 4 /\ tl[n - 3] = "declare" /\ IsDigits(tl[n - 2], 2, 3)
                /\ tl[n - 1] \in { "for", "/" } /\ IsDigits(tl[n], 1, 3)
        THEN Command("declare_bulls", CallsignBefore(t, tl, <<"declare">>),
                     Some(<<IntOf(tl[n - 2]), IntOf(tl[n])>>))
        ELSE IF n >= 5 /\ tl[n - 4] = "declare" /\ IsBullsCall(tl, n - 3)
        THEN Command("declare_bulls", CallsignBefore(t, tl, <<"declare">>),
                     Some(<<IntOf(tl[n - 2]), IntOf(tl[n])>>))
        ELSE IF EndsWith(tl, <<"declare">>)
        THEN Command("declare", CallsignBefore(t, tl, <<"declare">>), None)
        ELSE IF EndsWith(tl, <<"bogey", "dope">>)
        THEN Command("bogeydope", cut(2), None)
        ELSE IF EndsWith(tl, <<"bogeydope">>) \/ EndsWith(tl, <<"dope">>)
        THEN Command("bogeydope", cut(1), None)
        ELSE IF EndsWith(tl, <<"picture">>)
        THEN Command("picture", IF n = 1 THEN None ELSE cut(1), None)
        ELSE IF /\ n >= 7 /\ tl[1] = "cap" /\ tl[2] = "add" /\ IsSiteName(tl[3])
                /\ IsBullsCall(tl, 4) /\ CapTail(SubSeq(tl, 8, n)) # None
        THEN Command("cap_add_bulls", Some(tl[3]),
                     Some([brg |-> IntOf(tl[5]), rng |-> IntOf(tl[7]),
                           radius |-> Val(CapTail(SubSeq(tl, 8, n))).radius,
                           alt |-> Val(CapTail(SubSeq(tl, 8, n))).alt]))
        ELSE IF /\ n >= 6 /\ tl[1] = "cap" /\ tl[2] = "add" /\ IsSiteName(tl[3])
                /\ tl[4] = "at" /\ tl[5] = "fighter"
        THEN Command("cap_add_at_fighter", Some(tl[3]),
                     Some([cs |-> TextOf(SubSeq(tl, 6, 5 + cs1)),
                           radius |-> Val(CapTail(SubSeq(tl, 6 + cs1, n))).radius,
                           alt |-> Val(CapTail(SubSeq(tl, 6 + cs1, n))).alt]))
        ELSE IF n >= 4 /\ tl[1] = "cap" /\ tl[2] = "assign" /\ IsSiteName(tl[n])
        THEN Command("cap_assign", Some(TextOf(SubSeq(tl, 3, n - 1))), Some(tl[n]))
        ELSE IF tl = <<"cap", "status">>
        THEN Command("cap_status", None, None)
        ELSE IF n = 3 /\ tl[1] = "cap" /\ tl[2] = "status" /\ IsSiteName(tl[3])
        THEN Command("cap_status", Some(tl[3]), None)
        ELSE IF n = 3 /\ tl[1] = "cap" /\ tl[2] = "clear" /\ IsSiteName(tl[3])
        THEN Command("cap_clear", Some(tl[3]), None)
        ELSE IF /\ n >= 7 /\ tl[1] = "push" /\ tl[2] = "set" /\ IsBullsCall(tl, 3)
                /\ IsTimePhrase(SubSeq(tl, 7, n))
        THEN Command("push_set", Some(<<IntOf(tl[4]), IntOf(tl[6])>>),
                     Some(TextOf(SubSeq(tl, 7, n))))
        ELSE IF tl = <<"push", "status">> THEN Command("push_status", None, None)
        ELSE IF tl = <<"push", "cancel">> THEN Command("push_cancel", None, None)
        ELSE IF tl = <<"push", "execute">> THEN Command("push_execute", None, None)
        ELSE Command("picture", Some(t), None)

\* ------------------------------------------------------------- commands
\* handle_text for a command that logs nothing: r is [w, reply]
Answer(kind, args, r) ==
    /\ Sequential
    /\ ws' = r.w
    /\ reply' = r.reply
    /\ event' = Event(kind, args)
    /\ emitted' = << >>
    /\ UNCHANGED <<last_emit_tick, known_ids, last_merged_tick, mergedTicks, defendCount,
                   weapons_free, link>>

\* POST /api/config: `self.controller.weapons_free = wf`
SetWeaponsFree(wf) ==
    /\ Sequential
    /\ weapons_free' = wf
    /\ event' = Event("config", <<wf>>)
    /\ reply' = NoReply
    /\ emitted' = << >>
    /\ UNCHANGED <<ws, last_emit_tick, known_ids, last_merged_tick,
                   pushRuns, atSet, mergedTicks, defendCount, link>>

CmdPushSet(brg, rng, tstr) ==
    LET r == push_set(ws, brg, rng, tstr)
    IN  /\ Answer("push_set", <<brg, rng, tstr>>, r)
        /\ pushRuns' = IF r.w.push_plan.active /\ r.reply.args # << >> THEN 0 ELSE pushRuns
        /\ atSet' = IF r.reply.args # << >>
                     THEN Some([exec_time |-> Val(r.w.push_plan.exec_time),
                                replaced |-> /\ ws.push_plan.active
                                             /\ ws.push_plan.brg # r.w.push_plan.brg
                                             /\ ws.push_plan.exec_time # r.w.push_plan.exec_time,
                                recips |-> recipients(ws),
                                target |-> <<brg, rng>>])
                     ELSE atSet

\* the push status command with a slip: reading the plan clears it
CmdPushStatusClears ==
    /\ Answer("push_status", << >>,
              [w |-> [ws EXCEPT !.push_plan = PushPlan], reply |-> push_status_line(ws)])
    /\ UNCHANGED <<pushRuns, atSet>>

CmdPushStatus ==
    /\ Answer("push_status", << >>, [w |-> ws, reply |-> push_status_line(ws)])
    /\ UNCHANGED <<pushRuns, atSet>>

CmdPushCancel ==
    /\ Answer("push_cancel", << >>, push_cancel(ws))
    /\ UNCHANGED <<pushRuns, atSet>>

CmdPushExecute ==
    LET r == push_execute(ws)
    IN  /\ Sequential
        /\ ws' = r.w
        /\ reply' = r.reply
        /\ event' = Event("push_execute", << >>)
        /\ \E q \in Orderings(r.lines) : emitted' = q
        /\ pushRuns' = IF r.ran THEN Bump(pushRuns) ELSE pushRuns
        /\ UNCHANGED <<last_emit_tick, known_ids, last_merged_tick, atSet,
                       mergedTicks, defendCount, weapons_free, link>>

\* the picture command with a slip: answering flips weapons_free
CmdPictureFlips(cs) ==
    /\ Sequential
    /\ ws' = ws
    /\ weapons_free' = ~weapons_free
    /\ reply' = picture(ws, weapons_free, cs)
    /\ event' = Event("picture", <<cs>>)
    /\ emitted' = << >>
    /\ UNCHANGED <<last_emit_tick, known_ids, last_merged_tick, mergedTicks, defendCount,
                   pushRuns, atSet, link>>

\* handle_text, cmd == "picture" (cs: the callsign in front of the word, "" for none)
CmdPicture(cs) ==
    /\ Answer("picture", <<cs>>, [w |-> ws, reply |-> picture(ws, weapons_free, cs)])
    /\ UNCHANGED <<pushRuns, atSet>>

CmdCapAddBulls(name, brg, rng, radius, lo, hi) ==
    /\ Answer("cap_add_bulls", <<name, brg, rng, radius, lo, hi>>,
              cap_add_bulls(ws, name, brg, rng, radius, lo, hi))
    /\ UNCHANGED <<pushRuns, atSet>>

CmdCapAddAtFighter(name, q, radius, lo, hi) ==
    /\ Answer("cap_add_at_fighter", <<name, q, radius, lo, hi>>,
              cap_add_at_fighter(ws, name, q, radius, lo, hi))
    /\ UNCHANGED <<pushRuns, atSet>>

CmdCapAssign(q, name) ==
    /\ Answer("cap_assign", <<q, name>>, cap_assign(ws, q, name))
    /\ UNCHANGED <<pushRuns, atSet>>

CmdCapStatus(name) ==
    /\ Answer("cap_status", <<name>>, cap_status(ws, name))
    /\ UNCHANGED <<pushRuns, atSet>>

CmdCapClear(name) ==
    /\ Answer("cap_clear", <<name>>, cap_clear(ws, name))
    /\ UNCHANGED <<pushRuns, atSet>>

\* handle_text for a request that reads the picture and changes nothing
CmdBogeyDope(cs) ==
    /\ Answer("bogeydope", <<cs>>, [w |-> ws, reply |-> bogeydope(ws, cs)])
    /\ UNCHANGED <<pushRuns, atSet>>

CmdDeclare(cs) ==
    /\ Answer("declare", <<cs>>, [w |-> ws, reply |-> declare(ws, cs)])
    /\ UNCHANGED <<pushRuns, atSet>>

CmdDeclareBulls(brg, rng) ==
    /\ Answer("declare_bulls", <<brg, rng>>, [w |-> ws, reply |-> declare_bulls(ws, brg, rng)])
    /\ UNCHANGED <<pushRuns, atSet>>

CmdSnap(cs) ==
    /\ Answer("snap", <<cs>>, [w |-> ws, reply |-> snap(ws, cs)])
    /\ UNCHANGED <<pushRuns, atSet>>

CmdVector(cs, target) ==
    /\ Answer("vector", <<cs, target>>, [w |-> ws, reply |-> vector(ws, cs, target)])
    /\ UNCHANGED <<pushRuns, atSet>>

CmdAlpha(cs, target) ==
    /\ Answer("alpha", <<cs, target>>, [w |-> ws, reply |-> alpha(ws, cs, target)])
    /\ UNCHANGED <<pushRuns, atSet>>

\* handle_text, who_line and the lists of "whoall" and "whounk" (cut to 50, 12
\* and 25 entries, more than the registries here hold)
fmt_track(o) == <<o.Name, o.Coalition, o.Color, o.Type>>
who_line(w) ==
    Reply("Blue tracks:",
          [i \in DOMAIN blues(w) |-> <<friendly_label(blues(w)[i]), blues(w)[i].Name>>])
whoall(w) ==
    Reply("Seen - Blue: Red: Unknown:",
          <<Len(blues(w)), Len(reds(w)), Len(unks(w)),
            [i \in DOMAIN blues(w) |-> fmt_track(blues(w)[i])],
            [i \in DOMAIN reds(w) |-> fmt_track(reds(w)[i])],
            [i \in DOMAIN unks(w) |-> fmt_track(unks(w)[i])]>>)
whounk(w) == Reply("Unknown tracks:", [i \in DOMAIN unks(w) |-> fmt_track(unks(w)[i])])

\* an exception that leaves handle_text
Raises(what) == Reply("raise", <<what>>)

\* `"home" in tgt_name` and `tgt_key in ("home","homeplate","homebase")`
HomeWords == { "home", "home plate", "homeplate", "home base", "homebase" }

\* handle_text: `cmd, cs, target = parse_command(text)` and the branch of cmd.
\* The push_set branch reads the time phrase from cs and unpacks `brg, rng`
\* from target; parse_command puts (brg, rng) second and the phrase third, so
\* with a bullseye `brg, rng = target` unpacks the phrase and raises ValueError.
handle_text(w, wf, c) ==
    LET quiet(r) == [w |-> w, reply |-> r, lines |-> {}, ran |-> FALSE]
        moved(x) == [w |-> x.w, reply |-> x.reply, lines |-> {}, ran |-> FALSE]
        cs == IF c.cs = None THEN "" ELSE TextOf(Val(c.cs))
        name == IF c.cs = None THEN "" ELSE Val(c.cs)
        key == IF c.target = None THEN ""
               ELSE IF Val(c.target) \in HomeWords THEN "home"
               ELSE Val(c.target)
        data == Val(c.target)
    IN  IF c.cmd = "who" THEN quiet(who_line(w))
        ELSE IF c.cmd = "whoall" THEN quiet(whoall(w))
        ELSE IF c.cmd = "whounk" THEN quiet(whounk(w))
        ELSE IF c.cmd = "picture" THEN quiet(picture(w, wf, cs))
        ELSE IF c.cmd = "bogeydope" THEN quiet(bogeydope(w, cs))
        ELSE IF c.cmd = "declare" THEN quiet(declare(w, cs))
        ELSE IF c.cmd = "declare_bulls" THEN quiet(declare_bulls(w, data[1], data[2]))
        ELSE IF c.cmd = "snap" THEN quiet(snap(w, cs))
        ELSE IF c.cmd = "vector" THEN quiet(vector(w, cs, key))
        ELSE IF c.cmd = "alpha" THEN quiet(alpha(w, cs, key))
        ELSE IF c.cmd = "cap_add_bulls"
        THEN moved(cap_add_bulls(w, name, data.brg, data.rng, data.radius,
                                 AltOf(data.alt)[2], AltOf(data.alt)[3]))
        ELSE IF c.cmd = "cap_add_at_fighter"
        THEN moved(cap_add_at_fighter(w, name, data.cs, data.radius,
                                      AltOf(data.alt)[2], AltOf(data.alt)[3]))
        ELSE IF c.cmd = "cap_assign" THEN moved(cap_assign(w, name, data))
        ELSE IF c.cmd = "cap_status" THEN moved(cap_status(w, name))
        ELSE IF c.cmd = "cap_clear" THEN moved(cap_clear(w, name))
        ELSE IF c.cmd = "push_set"
        THEN IF bull_uv(w) = None THEN quiet(Reply("PUSH: UNABLE - no bullseye.", << >>))
             ELSE quiet(Raises("ValueError"))
        ELSE IF c.cmd = "push_status" THEN quiet(push_status_line(w))
        ELSE IF c.cmd = "push_cancel" THEN moved(push_cancel(w))
        ELSE IF c.cmd = "push_execute" THEN push_execute(w)
        ELSE quiet(Reply("UNABLE: command.", << >>))

\* POST /api/command: handle_text on the text of the request
HandleText(text) ==
    \E c \in { parse_command(text) } : \E r \in { handle_text(ws, weapons_free, c) } :
        /\ Sequential
        /\ ws' = r.w
        /\ reply' = r.reply
        /\ event' = Event("text", <<text>>)
        /\ \E q \in Orderings(r.lines) : emitted' = q
        /\ pushRuns' = IF r.ran THEN Bump(pushRuns) ELSE pushRuns
        /\ UNCHANGED <<last_emit_tick, known_ids, last_merged_tick, atSet,
                       mergedTicks, defendCount, weapons_free, link>>

\* brg_rng_from_xy from the origin o to the target t, then bulls_to_uv from o
\* with the bearing and range it returned
RoundTrip(o, t) ==
    LET br == brg_rng_from_xy(o, t)
    IN  /\ Sequential
        /\ event' = Event("round_trip", <<o, t>>)
        /\ reply' = Reply("round_trip", <<br.brg, br.d2, bulls_to_uv_fine(o, br.brg, br.d2)>>)
        /\ emitted' = << >>
        /\ UNCHANGED <<ws, last_emit_tick, known_ids, last_merged_tick, pushRuns, atSet,
                       mergedTicks, defendCount, weapons_free, link>>

\* ------------------------------------------------- the PUSH specification
\* The feed and the commands of the PUSH scheduler: one Blue flight (which is
\* also the bullseye reference, there being no bullseye navaid), one CAP site,
\* plans "now" and "in 30s", timestamps around T and around T + 30 s.
Viper11 == Obj(TypeAir, "Allies", "", "F-16C", "Viper11", <<5, 0>>, Some(6000))
Viper12 == Obj(TypeAir, "Allies", "", "F-16C", "Viper12", <<6, 0>>, Some(6000))

PushTimestamps == { 0, PushT, PushOffsetS * Sub, PushOffsetS * Sub + PushT }
PushPhrases == { "now", "in 30s" }
PushTargets == { <<90, 20>>, <<270, 35>> }

Next ==
    \/ UpdateEvent("b1", Viper11)
    \/ RemoveEvent("b1")
    \/ \E ts \in PushTimestamps : TimeEvent(ts)
    \/ \E tgt \in PushTargets, tstr \in PushPhrases : CmdPushSet(tgt[1], tgt[2], tstr)
    \/ CmdPushStatus
    \/ CmdPushCancel
    \/ CmdPushExecute
    \/ CmdCapAddBulls("cap1", 90, 20, 10, 20, 40)
    \/ CmdCapAssign("viper11", "cap1")
    \/ CmdCapClear("cap1")

Spec == Init /\ [][Next]_vars

\* -------------------------------------------- the recipients specification
\* Two Blue flights and two CAP sites, plans "now", and a clock that stays at
\* 0 or jumps beyond the time-to-live of what was seen at 0.
RecipFeed == { <<"b1", Viper11>>, <<"b2", Viper12>> }
RecipLate == (TTL + 1) * Sub
RecipAssignments == { <<"viper11", "cap1">>, <<"viper12", "cap2">> }

NextRecips ==
    \/ \E f \in RecipFeed : UpdateEvent(f[1], f[2])
    \/ \E f \in RecipFeed : RemoveEvent(f[1])
    \/ \E ts \in {0, RecipLate} : TimeEvent(ts)
    \/ CmdPushSet(90, 20, "now")
    \/ CmdPushExecute
    \/ \E name \in {"cap1", "cap2"} : CmdCapAddBulls(name, 90, 20, 10, 20, 40)
    \/ \E a \in RecipAssignments : CmdCapAssign(a[1], a[2])
    \/ CmdCapClear("all")

SpecRecips == Init /\ [][NextRecips]_vars


\* ----------------------------------------------- the MERGED specification
\* One Blue flight and one Red contact that is reported 2 NM or 15 NM from it,
\* and timestamps on both sides of the cooldown: 0.5 s steps around 1 s, around
\* the cooldown and around twice the cooldown.
MigNear == Obj(TypeAir, "Enemies", "", "MiG-29", "", <<7, 0>>, Some(5000))
MigFar == Obj(TypeAir, "Enemies", "", "MiG-29", "", <<20, 0>>, None)

MergedTimestamps ==
    { 0, Sub, MergedCooldown * Sub - 1, MergedCooldown * Sub,
      (MergedCooldown + 1) * Sub, 2 * MergedCooldown * Sub }

NextMerged ==
    \/ UpdateEvent("b1", Viper11)
    \/ \E o \in { MigNear, MigFar } : UpdateEvent("r1", o)
    \/ \E oid \in { "b1", "r1" } : RemoveEvent(oid)
    \/ \E ts \in MergedTimestamps : TimeEvent(ts)

SpecMerged == Init /\ [][NextMerged]_vars


\* ----------------------------------------------- the DEFEND specification
\* One Blue flight and two weapon ids: m1 is reported as a hostile missile
\* 5 NM from the flight or as the same missile without a position, m2 as a
\* Blue missile; removals, and a clock that jumps beyond the time-to-live.
R77Near == Obj(TypeMissile, "Enemies", "", "R-77", "", <<10, 0>>, Some(5000))
R77NoPos == Obj(TypeMissile, "Enemies", "", "R-77", "", None, None)
Aim120 == Obj(TypeMissile, "Allies", "", "AIM-120C", "", <<10, 0>>, Some(6000))

DefendWeapons == { <<"m1", R77Near>>, <<"m1", R77NoPos>>, <<"m2", Aim120>> }
DefendLate == (TTL + 1) * Sub

NextDefend ==
    \/ UpdateEvent("b1", Viper11)
    \/ \E f \in DefendWeapons : UpdateEvent(f[1], f[2])
    \/ \E oid \in { "b1", "m1", "m2" } : RemoveEvent(oid)
    \/ \E ts \in { Sub, DefendLate } : TimeEvent(ts)

SpecDefend == Init /\ [][NextDefend]_vars


\* ------------------------------------------- the two threads, interleaved
\* Controller.start runs _run_loop in a thread of its own and the command
\* server calls handle_text from another; nothing in the code serialises them.
\* Here the statements of _try_execute_push, of push set and of push execute
\* are steps of their own, taken by the ingest thread (`ing`) and the command
\* thread (`cmd`) in any order; the rest of a TIME event, push cancel and the
\* other events and commands are one step each.
Thread(who) == IF who = "ing" THEN ing ELSE cmd

\* the PushPlan object the local `p` of a thread refers to
PlanOf(th) == IF th.detached THEN th.p ELSE ws.push_plan

\* a step of thread `who` that leaves it as `th` and the other thread alone
Becomes(who, th) ==
    IF who = "ing" THEN ing' = th /\ cmd' = cmd ELSE cmd' = th /\ ing' = ing

\* _try_execute_push returns: the ingest loop goes on to the next event,
\* handle_text returns "PUSH: executed."
Returns(who) ==
    /\ Becomes(who, Idle)
    /\ reply' = IF who = "cmd" THEN Reply("PUSH: executed.", << >>) ELSE NoReply

\* what a step of _try_execute_push leaves alone
TepFrame(who, pc) ==
    /\ event' = Event(pc, <<who>>)
    /\ UNCHANGED <<last_emit_tick, known_ids, last_merged_tick, atSet,
                   mergedTicks, defendCount, weapons_free, link>>

\* _try_execute_push: `p = self.ws.push_plan`
TepBind(who) ==
    /\ Thread(who).pc = "tep_bind"
    /\ Becomes(who, [Thread(who) EXCEPT !.pc = "tep_active", !.detached = FALSE])
    /\ reply' = NoReply
    /\ emitted' = << >>
    /\ TepFrame(who, "tep_bind")
    /\ UNCHANGED <<ws, pushRuns>>

\* _try_execute_push: `if not p.active: return`
TepActive(who) ==
    /\ Thread(who).pc = "tep_active"
    /\ IF PlanOf(Thread(who)).active
       THEN /\ Becomes(who, [Thread(who) EXCEPT !.pc = "tep_time"])
            /\ reply' = NoReply
       ELSE Returns(who)
    /\ emitted' = << >>
    /\ TepFrame(who, "tep_active")
    /\ UNCHANGED <<ws, pushRuns>>

\* _try_execute_push: `if self.ws.time < (p.exec_time or 0): return`
TepTime(who) ==
    LET p == PlanOf(Thread(who))
    IN  /\ Thread(who).pc = "tep_time"
        /\ IF ws.time < (IF p.exec_time = None THEN 0 ELSE Val(p.exec_time))
           THEN Returns(who)
           ELSE /\ Becomes(who, [Thread(who) EXCEPT !.pc = "tep_log"])
                /\ reply' = NoReply
        /\ emitted' = << >>
        /\ TepFrame(who, "tep_time")
        /\ UNCHANGED <<ws, pushRuns>>

\* _try_execute_push: the recipients and the broadcast loop
TepLog(who) ==
    /\ Thread(who).pc = "tep_log"
    /\ Becomes(who, [Thread(who) EXCEPT !.pc = "tep_clear"])
    /\ reply' = NoReply
    /\ \E q \in Orderings(push_lines([ws EXCEPT !.push_plan = PlanOf(Thread(who))])) :
          emitted' = q
    /\ pushRuns' = Bump(pushRuns)
    /\ TepFrame(who, "tep_log")
    /\ UNCHANGED ws

\* _try_execute_push: `p.active = False`
TepClear(who) ==
    /\ Thread(who).pc = "tep_clear"
    /\ IF Thread(who).detached
       THEN UNCHANGED ws
       ELSE ws' = [ws EXCEPT !.push_plan.active = FALSE]
    /\ Returns(who)
    /\ emitted' = << >>
    /\ TepFrame(who, "tep_clear")
    /\ UNCHANGED pushRuns

\* _run_loop, ACTION_TIME, up to the call of _try_execute_push, which the
\* thread then steps through
RaceTime(ts) ==
    LET now == IF ts # 0 THEN ts ELSE ws.time
        w1 == [ws EXCEPT !.time = now,
                         !.tracks = [oid \in DOMAIN ws.tracks |->
                                       update_speed(ws.tracks[oid], now)]]
        w2 == cull_stale(w1, now)
        tick == TickOf(now)
        m == check_merged(w2, tick, last_merged_tick)
    IN  /\ ing = Idle
        /\ cmd' = cmd
        /\ ws' = w2
        /\ event' = Event("TIME", <<ts>>)
        /\ reply' = NoReply
        /\ UNCHANGED <<known_ids, atSet, defendCount, pushRuns, weapons_free, link>>
        /\ IF tick # last_emit_tick
           THEN /\ last_emit_tick' = tick
                /\ last_merged_tick' = m.last_merged_tick
                /\ emitted' = m.lines
                /\ mergedTicks' = IF m.lines = << >> THEN mergedTicks
                                  ELSE IF mergedTicks = << >> THEN <<tick>>
                                  ELSE <<mergedTicks[Len(mergedTicks)], tick>>
                /\ ing' = [Idle EXCEPT !.pc = "tep_bind"]
           ELSE /\ emitted' = << >>
                /\ ing' = Idle
                /\ UNCHANGED <<last_emit_tick, last_merged_tick, mergedTicks>>

\* what a statement of handle_text leaves alone
CmdFrame(kind, args) ==
    /\ event' = Event(kind, args)
    /\ emitted' = << >>
    /\ ing' = ing
    /\ UNCHANGED <<last_emit_tick, known_ids, last_merged_tick, mergedTicks, defendCount,
                   weapons_free, link>>

\* handle_text, push_set: the checks, then `p.brg, p.rng = brg, rng` and
\* `p.target_uv = ...` on the plan object in place
RacePushSet(brg, rng, tstr) ==
    LET r == push_set(ws, brg, rng, tstr)
    IN  /\ cmd = Idle
        /\ CmdFrame("push_set", <<brg, rng, tstr>>)
        /\ UNCHANGED <<pushRuns, atSet>>
        /\ IF r.reply.args = << >>
           THEN /\ ws' = ws
                /\ reply' = r.reply
                /\ cmd' = Idle
           ELSE /\ ws' = [ws EXCEPT !.push_plan.brg = Some(brg),
                                    !.push_plan.rng = Some(rng),
                                    !.push_plan.target_uv = r.w.push_plan.target_uv]
                /\ reply' = NoReply
                /\ cmd' = [Idle EXCEPT !.pc = "set_time", !.arg = r.reply.args]

\* handle_text, push_set: `p.exec_time = (ws.time or 0.0) + offs` and
\* `p.created_at = ws.time or 0.0`
RaceSetTime ==
    /\ cmd.pc = "set_time"
    /\ CmdFrame("set_time", << >>)
    /\ ws' = [ws EXCEPT !.push_plan.exec_time = Some(ws.time + cmd.arg[3] * Sub),
                        !.push_plan.created_at = Some(ws.time)]
    /\ reply' = NoReply
    /\ cmd' = [cmd EXCEPT !.pc = "set_active"]
    /\ UNCHANGED <<pushRuns, atSet>>

\* handle_text, push_set: `p.active = True` and the reply (atSet.replaced is
\* history of the sequential specifications and is not recorded here)
RaceSetActive ==
    /\ cmd.pc = "set_active"
    /\ CmdFrame("set_active", << >>)
    /\ ws' = [ws EXCEPT !.push_plan.active = TRUE]
    /\ reply' = Reply("PUSH: set BULLS, exec", cmd.arg)
    /\ cmd' = Idle
    /\ pushRuns' = 0
    /\ atSet' = Some([exec_time |-> Val(ws.push_plan.exec_time),
                      replaced |-> FALSE,
                      recips |-> recipients(ws),
                      target |-> <<cmd.arg[1], cmd.arg[2]>>])

\* handle_text, push_cancel: `ws.push_plan = PushPlan()`.  A thread inside
\* _try_execute_push keeps the object it has bound.
RacePushCancel ==
    /\ cmd = Idle
    /\ event' = Event("push_cancel", << >>)
    /\ emitted' = << >>
    /\ ws' = [ws EXCEPT !.push_plan = PushPlan]
    /\ reply' = Reply("PUSH: canceled.", << >>)
    /\ cmd' = Idle
    /\ ing' = IF ing.pc \in { "tep_active", "tep_time", "tep_log", "tep_clear" } /\ ~ing.detached
              THEN [ing EXCEPT !.detached = TRUE, !.p = ws.push_plan]
              ELSE ing
    /\ UNCHANGED <<last_emit_tick, known_ids, last_merged_tick, mergedTicks,
                   defendCount, pushRuns, atSet, weapons_free, link>>

\* handle_text, push_execute: `if not ws.push_plan.active: return "PUSH: no plan."`
RacePushExecute ==
    /\ cmd = Idle
    /\ CmdFrame("push_execute", << >>)
    /\ ws' = ws
    /\ IF ws.push_plan.active
       THEN reply' = NoReply /\ cmd' = [Idle EXCEPT !.pc = "exe_settime"]
       ELSE reply' = Reply("PUSH: no plan.", << >>) /\ cmd' = Idle
    /\ UNCHANGED <<pushRuns, atSet>>

\* handle_text, push_execute: `ws.push_plan.exec_time = ws.time or 0.0`, then
\* the call of _try_execute_push
RaceExeSetTime ==
    /\ cmd.pc = "exe_settime"
    /\ CmdFrame("exe_settime", << >>)
    /\ ws' = [ws EXCEPT !.push_plan.exec_time = Some(ws.time)]
    /\ reply' = NoReply
    /\ cmd' = [cmd EXCEPT !.pc = "tep_bind"]
    /\ UNCHANGED <<pushRuns, atSet>>

\* The feed and the commands of the interleaved specification: the flight and
\* the CAP assignment of the PUSH specification (reported and given while both
\* threads are between two steps), plans "now" to two targets, and a clock
\* that moves between 0 s, 1 s and 2 s.
RaceTimestamps == { 0, Sub, 2 * Sub }

NextRace ==
    \/ UpdateEvent("b1", Viper11)
    \/ CmdCapAddBulls("cap1", 90, 20, 10, 20, 40)
    \/ CmdCapAssign("viper11", "cap1")
    \/ \E ts \in RaceTimestamps : RaceTime(ts)
    \/ \E tgt \in PushTargets : RacePushSet(tgt[1], tgt[2], "now")
    \/ RaceSetTime
    \/ RaceSetActive
    \/ RacePushCancel
    \/ RacePushExecute
    \/ RaceExeSetTime
    \/ \E who \in { "ing", "cmd" } :
          \/ TepBind(who)
          \/ TepActive(who)
          \/ TepTime(who)
          \/ TepLog(who)
          \/ TepClear(who)

SpecRace == Init /\ [][NextRace]_vars


\* ------------------------------------------- the console-log specification
\* Everything that makes the ingest loop log: a Blue flight on a CAP site, a
\* Red contact 2 NM from it, a hostile missile 5 NM from it, and plans "now".
NextLog ==
    \/ UpdateEvent("b1", Viper11)
    \/ UpdateEvent("r1", MigNear)
    \/ UpdateEvent("m1", R77Near)
    \/ RemoveEvent("r1")
    \/ \E ts \in { 0, MergedCooldown * Sub } : TimeEvent(ts)
    \/ CmdPushSet(90, 20, "now")
    \/ CmdCapAddBulls("cap1", 90, 20, 10, 20, 40)
    \/ CmdCapAssign("viper11", "cap1")

SpecLog == Init /\ [][NextLog]_vars


\* ------------------------------------------------ the staleness specification
\* A Blue flight that can be put on a CAP site, a hostile missile and the
\* bullseye navaid of the Blue coalition, seen at 0 s, 0.5 s or later, and a
\* clock that reaches the time-to-live exactly and one step beyond it.  No
\* REMOVE event: what leaves the registry here was culled.
BullseyeBlue == Obj(TypeBullseye, "Allies", "", "Bullseye", "", <<1, 1>>, None)

StaleFeed == { <<"b1", Viper11>>, <<"m1", R77Near>>, <<"be", BullseyeBlue>> }
StaleTimestamps == { 1, TTL * Sub, TTL * Sub + 1 }

NextStale ==
    \/ \E f \in StaleFeed : UpdateEvent(f[1], f[2])
    \/ \E ts \in StaleTimestamps : TimeEvent(ts)
    \/ CmdCapAddBulls("cap1", 90, 20, 10, 20, 40)
    \/ CmdCapAssign("viper11", "cap1")

SpecStale == Init /\ [][NextStale]_vars


\* ------------------------------------------------------ the CAP specification
\* `cap add` in both forms with altitude arguments in order, reversed, equal
\* and at both ends of what two digits can say; a Blue flight with or without
\* a position.
Viper11NoPos == Obj(TypeAir, "Allies", "", "F-16C", "Viper11", None, Some(6000))
AltArgs == { <<20, 40>>, <<30, 20>>, <<25, 25>>, <<0, 0>>, <<99, 99>> }

NextCap ==
    \/ \E o \in { Viper11, Viper11NoPos } : UpdateEvent("b1", o)
    \/ RemoveEvent("b1")
    \/ \E a \in AltArgs : CmdCapAddBulls("cap1", 90, 20, 10, a[1], a[2])
    \/ \E a \in AltArgs : CmdCapAddAtFighter("cap2", "viper11", 10, a[1], a[2])
    \/ CmdCapAssign("viper11", "cap1")
    \/ \E name \in { "cap1", "all" } : CmdCapClear(name)

SpecCap == Init /\ [][NextCap]_vars


\* ------------------------------------------------ the home-plate specification
\* One Blue flight reported on the ground (100 m) at two places 45 NM apart
\* and airborne (6000 m), with TIME events in between (so that its speed is
\* 0 or far above 60 kt), and removals.
ViperGround == Obj(TypeAir, "Allies", "", "F-16C", "Viper11", <<5, 0>>, Some(100))
ViperLowAway == Obj(TypeAir, "Allies", "", "F-16C", "Viper11", <<50, 0>>, Some(100))

NextHome ==
    \/ \E o \in { ViperGround, ViperLowAway, Viper11 } : UpdateEvent("b1", o)
    \/ RemoveEvent("b1")
    \/ \E ts \in { Sub, 2 * Sub, (TTL + 3) * Sub } : TimeEvent(ts)

SpecHome == Init /\ [][NextHome]_vars


\* ------------------------------------------------- the grouping specification
\* A bullseye navaid and contacts east of it, 4 NM apart (10, 14, 18 and 22 NM):
\* three Red ones at 25,000 ft, the middle one also reported 4,500 ft higher
\* and the third also far away, and one of no coalition with no altitude.
MigA == Heading(Obj(TypeAir, "Enemies", "", "MiG-29", "Flanker1", <<11, 1>>, Some(7620)), 270)
MigB == Heading(Obj(TypeAir, "Enemies", "", "MiG-29", "Flanker2", <<15, 1>>, Some(7620)), 270)
MigBHigh == Heading(Obj(TypeAir, "Enemies", "", "MiG-29", "Flanker2", <<15, 1>>, Some(9000)), 270)
MigC == Heading(Obj(TypeAir, "Enemies", "", "MiG-29", "Flanker3", <<19, 1>>, Some(7620)), 270)
MigCFar == Heading(Obj(TypeAir, "Enemies", "", "MiG-29", "Flanker3", <<41, 1>>, Some(7620)), 270)
UnkD == Obj(TypeAir, "", "", "Su-27", "", <<23, 1>>, None)

GroupFeed ==
    { <<"be", BullseyeBlue>>, <<"r1", MigA>>, <<"r2", MigB>>, <<"r2", MigBHigh>>,
      <<"r3", MigC>>, <<"r3", MigCFar>>, <<"u1", UnkD>> }

NextGroup ==
    \/ \E f \in GroupFeed : UpdateEvent(f[1], f[2])
    \/ \E oid \in { "r2", "u1" } : RemoveEvent(oid)
    \/ CmdPicture("")

SpecGroup == Init /\ [][NextGroup]_vars


\* -------------------------------------------------- the picture specification
\* A bullseye navaid at the planar origin or at (1, 1), one Red contact
\* 20 NM east of either, at 7620 m (25,000 ft), heading 270 or 090, a Blue
\* flight, the weapons-free switch and `picture` with and without a callsign.
BullseyeOrigin == Obj(TypeBullseye, "Allies", "", "Bullseye", "", <<0, 0>>, None)
Bandit20 == Heading(Obj(TypeAir, "Enemies", "", "MiG-29", "", <<20, 0>>, Some(7620)), 270)
Bandit21 == Heading(Obj(TypeAir, "Enemies", "", "MiG-29", "", <<21, 1>>, Some(7620)), 270)
Bandit21Away == Heading(Obj(TypeAir, "Enemies", "", "MiG-29", "", <<21, 1>>, Some(7620)), 90)

PictureFeed ==
    { <<"be", BullseyeOrigin>>, <<"be", BullseyeBlue>>, <<"b1", Viper11>>,
      <<"r1", Bandit20>>, <<"r1", Bandit21>>, <<"r1", Bandit21Away>> }

NextPicture ==
    \/ \E f \in PictureFeed : UpdateEvent(f[1], f[2])
    \/ \E oid \in { "be", "r1" } : RemoveEvent(oid)
    \/ TimeEvent((TTL + 2) * Sub)
    \/ \E wf \in BOOLEAN : SetWeaponsFree(wf)
    \/ \E cs \in { "", "Viper11" } : CmdPicture(cs)

SpecPicture == Init /\ [][NextPicture]_vars


\* ------------------------------------------------- the ordering specification
\* A bullseye navaid at (1, 1), reported first, and six Red contacts reported in
\* any order: 10 NM east and 10 NM north of it (the same range), 30 NM west,
\* 40 NM south, 50 NM east and a sixth one 60 NM north or 51 NM east (then a
\* two-ship with the fifth, its centroid at 50.5 NM).
RedAt(uv) == Heading(Obj(TypeAir, "Enemies", "", "MiG-29", "", uv, Some(7620)), 270)

OrderFeed ==
    { <<"r1", RedAt(<<11, 1>>)>>, <<"r2", RedAt(<<1, 11>>)>>, <<"r3", RedAt(<<-29, 1>>)>>,
      <<"r4", RedAt(<<1, -39>>)>>, <<"r5", RedAt(<<51, 1>>)>>,
      <<"r6", RedAt(<<1, 61>>)>>, <<"r6", RedAt(<<52, 1>>)>> }

NextOrder ==
    \/ ws.objects = << >> /\ UpdateEvent("be", BullseyeBlue)
    \/ \E f \in OrderFeed : ws.objects # << >> /\ UpdateEvent(f[1], f[2])
    \/ RemoveEvent("r1")
    \/ CmdPicture("")

SpecOrder == Init /\ [][NextOrder]_vars


\* --------------------------------------------------- the requests specification
\* A Blue flight (with and without a position), a tanker, a Red contact and a
\* bullseye navaid at the planar origin, all on one line, and every request
\* with the references it needs present or absent.
Texaco == Obj(TypeAir, "Allies", "", "KC-135", "Texaco", <<9, 0>>, Some(7000))

RequestFeed ==
    { <<"be", BullseyeOrigin>>, <<"b1", Viper11>>, <<"b1", Viper11NoPos>>,
      <<"t1", Texaco>>, <<"r1", Bandit20>> }

NextRequest ==
    \/ \E f \in RequestFeed : UpdateEvent(f[1], f[2])
    \/ \E oid \in { "b1", "r1" } : RemoveEvent(oid)
    \/ CmdPicture("")
    \/ \E cs \in { "", "ghost" } : CmdBogeyDope(cs)
    \/ CmdDeclare("")
    \/ CmdDeclareBulls(90, 20)
    \/ CmdSnap("")
    \/ \E cs \in { "", "ghost" }, target \in { "home", "tanker", "viper12" } :
          CmdVector(cs, target)
    \/ \E target \in { "", "home", "tanker" } : CmdAlpha("", target)
    \/ CmdCapAddBulls("cap1", 90, 20, 10, 20, 40)
    \/ CmdCapAssign("ghost", "cap1")
    \/ CmdPushSet(90, 20, "now")

SpecRequest == Init /\ [][NextRequest]_vars


\* ----------------------------------------------- the round-trip specification
\* Origins at the planar origin and at (1, 1), targets on the grid of whole
\* nautical miles up to RoundGrid from the planar origin.
RoundGrid == 5
RoundOrigins == { <<0, 0>>, <<1, 1>> }

NextRound ==
    \E o \in RoundOrigins, tu \in (0 - RoundGrid)..RoundGrid, tv \in (0 - RoundGrid)..RoundGrid :
       RoundTrip(o, <<tu, tv>>)

SpecRound == Init /\ [][NextRound]_vars


\* ------------------------------------- the unknown-contact specification
\* One Blue flight, one contact without coalition or colour 1 NM from it (or
\* 15 NM away), and optionally a Red contact 2 NM from the flight.
UnkNear == Obj(TypeAir, "", "", "Su-27", "", <<6, 0>>, Some(6000))
UnkFar == Obj(TypeAir, "", "", "Su-27", "", <<20, 0>>, Some(6000))

NextUnknown ==
    \/ UpdateEvent("b1", Viper11)
    \/ \E o \in { UnkNear, UnkFar } : UpdateEvent("u1", o)
    \/ UpdateEvent("r1", MigNear)
    \/ \E oid \in { "u1", "r1" } : RemoveEvent(oid)
    \/ \E ts \in { 0, Sub, MergedCooldown * Sub } : TimeEvent(ts)

SpecUnknown == Init /\ [][NextUnknown]_vars


\* ------------------------------------------- the missile-birth specification
\* Two Blue flights 1 NM apart and two weapon ids reported for the first time:
\* m1 as a hostile missile 4 NM from the nearer flight, as the same missile
\* without a position, or as an object that only its name gives away; m2 as a
\* hostile missile exactly 30 NM from the nearer flight (31 NM from the other)
\* or as a Blue missile.
R77Edge == Obj(TypeMissile, "Enemies", "", "R-77", "", <<36, 0>>, Some(5000))
R77ByName == Obj("", "", "", "R-77", "", <<5, 4>>, None)

BirthFeed ==
    { <<"b1", Viper11>>, <<"b2", Viper12>>,
      <<"m1", R77Near>>, <<"m1", R77NoPos>>, <<"m1", R77ByName>>,
      <<"m2", R77Edge>>, <<"m2", Aim120>> }

NextBirth ==
    \/ \E f \in BirthFeed : UpdateEvent(f[1], f[2])
    \/ RemoveEvent("b2")

SpecBirth == Init /\ [][NextBirth]_vars


\* ------------------------------------------------- the removal specification
\* Two Blue flights that can be put on two CAP sites, a Blue missile, a
\* bullseye navaid that is reported under either coalition (and so can hold
\* both slots), and REMOVE events for one flight, the missile, the navaid and
\* an id that was never reported.
BullseyeRed == Obj(TypeBullseye, "Enemies", "", "Bullseye", "", <<2, 2>>, None)

RemovalFeed ==
    { <<"b1", Viper11>>, <<"b2", Viper12>>, <<"m1", Aim120>>,
      <<"be", BullseyeBlue>>, <<"be", BullseyeRed>> }
RemovalAssignments ==
    { <<"viper11", "cap1">>, <<"viper12", "cap1">>, <<"viper11", "cap2">> }

NextRemoval ==
    \/ \E f \in RemovalFeed : UpdateEvent(f[1], f[2])
    \/ \E oid \in { "b1", "m1", "be", "zz" } : RemoveEvent(oid)
    \/ CmdCapAddBulls("cap1", 90, 20, 10, 20, 40)
    \/ CmdCapAddAtFighter("cap2", "viper12", 10, 20, 40)
    \/ \E a \in RemovalAssignments : CmdCapAssign(a[1], a[2])

SpecRemoval == Init /\ [][NextRemoval]_vars


\* ------------------------------------------- the CAP redefinition specification
\* The Blue bullseye, one Blue flight, and two site names that are defined and
\* defined again, from the bullseye with two bearings, radii and altitude
\* blocks or at the flight's position, with assignments in between.
RedefineArgs == { <<90, 10, 20, 40>>, <<180, 15, 10, 20>> }

NextRedefine ==
    \/ UpdateEvent("be", BullseyeBlue)
    \/ UpdateEvent("b1", Viper11)
    \/ \E name \in { "cap1", "cap2" }, a \in RedefineArgs :
          CmdCapAddBulls(name, a[1], 20, a[2], a[3], a[4])
    \/ CmdCapAddAtFighter("cap1", "viper11", 12, 25, 35)
    \/ \E name \in { "cap1", "cap2" } : CmdCapAssign("viper11", name)

SpecRedefine == Init /\ [][NextRedefine]_vars


\* ----------------------------------------------- the on-station specification
\* The Blue bullseye, a site 20 NM east of it (radius 10 NM, 20,000-40,000 ft)
\* and a Blue flight on it that is reported inside the radius and the band, on
\* the edge of both (10 NM out at 6097 m, just above 20,000 ft), at the top of
\* the band (12192 m) and just above it, below the band (6096 m: 19,999.99 ft
\* with M_TO_FT), 11 NM out, without an altitude and without a position.
ViperOn == Obj(TypeAir, "Allies", "", "F-16C", "Viper11", <<15, 1>>, Some(7000))
ViperEdge == Obj(TypeAir, "Allies", "", "F-16C", "Viper11", <<11, 1>>, Some(6097))
ViperTop == Obj(TypeAir, "Allies", "", "F-16C", "Viper11", <<15, 1>>, Some(12192))
ViperAbove == Obj(TypeAir, "Allies", "", "F-16C", "Viper11", <<15, 1>>, Some(12193))
ViperBelow == Obj(TypeAir, "Allies", "", "F-16C", "Viper11", <<15, 1>>, Some(6096))
ViperOut == Obj(TypeAir, "Allies", "", "F-16C", "Viper11", <<10, 1>>, Some(7000))
ViperNoAlt == Obj(TypeAir, "Allies", "", "F-16C", "Viper11", <<15, 1>>, None)

StationFeed ==
    { <<"be", BullseyeBlue>>, <<"b1", ViperOn>>, <<"b1", ViperEdge>>,
      <<"b1", ViperTop>>, <<"b1", ViperAbove>>, <<"b1", ViperBelow>>, <<"b1", ViperOut>>,
      <<"b1", ViperNoAlt>>, <<"b1", Viper11NoPos>> }

NextStation ==
    \/ \E f \in StationFeed : UpdateEvent(f[1], f[2])
    \/ CmdCapAddBulls("cap1", 90, 20, 10, 20, 40)
    \/ CmdCapAssign("viper11", "cap1")
    \/ \E name \in { "", "cap1" } : CmdCapStatus(name)

SpecStation == Init /\ [][NextStation]_vars


\* ------------------------------------------------ the CAP pruning specification
\* The Blue bullseye, two sites and two Blue flights.  `cap assign` runs in the
\* command thread in two steps, the lookup and the `add`, and a REMOVE of the
\* ingest thread can fall between them: that is how an id that is not in the
\* registry gets into an assignment set.
\* handle_text, cap_assign, up to `cap = ws.cap_sites.get(target)`: the replies
\* of the two failures, else the command thread holds the fighter and the site
RaceAssignLookup(q, name) ==
    LET r == cap_assign(ws, q, name)
    IN  /\ cmd = Idle
        /\ CmdFrame("cap_assign", <<q, name>>)
        /\ ws' = ws
        /\ UNCHANGED <<pushRuns, atSet>>
        /\ IF r.reply.text = "CAP: assigned"
           THEN /\ reply' = NoReply
                /\ cmd' = [Idle EXCEPT !.pc = "assign_add",
                                       !.arg = <<Val(find_callsign_blue(ws, q)), name,
                                                 r.reply.args[1]>>]
           ELSE /\ reply' = r.reply
                /\ cmd' = Idle

\* handle_text, cap_assign: `cap.assigned_ids.add(fighter.object_id)` and the
\* reply, with the fighter and the site of the lookup
RaceAssignAdd ==
    /\ cmd.pc = "assign_add"
    /\ CmdFrame("cap_assign", <<cmd.arg[1], cmd.arg[2]>>)
    /\ ws' = [ws EXCEPT !.cap_sites =
                [i \in DOMAIN ws.cap_sites |->
                   IF ws.cap_sites[i].key = cmd.arg[2]
                   THEN [ws.cap_sites[i] EXCEPT !.val.assigned_ids = @ \cup { cmd.arg[1] }]
                   ELSE ws.cap_sites[i]]]
    /\ reply' = Reply("CAP: assigned", <<cmd.arg[3], cmd.arg[2]>>)
    /\ cmd' = Idle
    /\ UNCHANGED <<pushRuns, atSet>>

\* _run_loop, ACTION_REMOVE, in the ingest thread, wherever the command thread is
RaceRemove(oid) ==
    /\ ing = Idle
    /\ UNCHANGED <<ing, cmd>>
    /\ ws' = remove(ws, oid)
    /\ event' = Event("REMOVE", <<oid>>)
    /\ reply' = NoReply
    /\ emitted' = << >>
    /\ UNCHANGED <<last_emit_tick, known_ids, last_merged_tick,
                   pushRuns, atSet, mergedTicks, defendCount, weapons_free, link>>

NextPrune ==
    \/ UpdateEvent("be", BullseyeBlue)
    \/ UpdateEvent("b1", Viper11)
    \/ UpdateEvent("b2", Viper12)
    \/ RaceRemove("b1")
    \/ CmdCapAddBulls("cap1", 90, 20, 10, 20, 40)
    \/ CmdCapAddBulls("cap2", 270, 20, 10, 20, 40)
    \/ \E q \in { "viper11", "viper12" }, name \in { "cap1", "cap2" } :
          RaceAssignLookup(q, name)
    \/ RaceAssignAdd
    \/ \E name \in { "", "cap1", "cap3" } : CmdCapStatus(name)

SpecPrune == Init /\ [][NextPrune]_vars


\* --------------------------------------------- the bullseye specification
\* The Blue bullseye navaid reported under two ids (it changes its id), the
\* Red one, a Blue flight, removals of each navaid, and a clock that passes
\* the time-to-live.
BullFeed ==
    { <<"be1", BullseyeBlue>>, <<"be2", BullseyeBlue>>, <<"be3", BullseyeRed>>,
      <<"b1", Viper11>> }

NextBull ==
    \/ \E f \in BullFeed : UpdateEvent(f[1], f[2])
    \/ \E oid \in { "be1", "be2", "be3" } : RemoveEvent(oid)
    \/ \E ts \in { Sub, (TTL + 2) * Sub } : TimeEvent(ts)

SpecBull == Init /\ [][NextBull]_vars


\* -------------------------------------------------- the aspect specification
\* aspect_word applied to every whole heading and bearing, and to a missing
\* heading or bearing.  The arguments are drawn by the initial state.
Degrees == { None } \cup { Some(d) : d \in 0..359 }

InitAspect ==
    /\ ws = WorldState
    /\ last_emit_tick = InitLastEmitTick
    /\ known_ids = {}
    /\ last_merged_tick = InitLastMergedTick
    /\ \E hdg, brg \in Degrees : event = Event("aspect_args", <<hdg, brg>>)
    /\ reply = NoReply
    /\ emitted = << >>
    /\ pushRuns = 0
    /\ atSet = None
    /\ mergedTicks = << >>
    /\ defendCount = << >>
    /\ ing = Idle
    /\ cmd = Idle
    /\ weapons_free = FALSE
    /\ link = NoLink

\* aspect_word(hdg, brg_from_fighter): "UNK" when either is None
AspectWord ==
    LET hdg == event.args[1]
        brg == event.args[2]
    IN  /\ event.kind = "aspect_args"
        /\ event' = Event("aspect_word", <<hdg, brg>>)
        /\ reply' = Reply("aspect",
                          IF brg = None THEN <<"UNK">>
                          ELSE aspect_word(IF hdg = None THEN None
                                           ELSE Some([num |-> Val(hdg), den |-> 1]),
                                           Val(brg)))
        /\ UNCHANGED <<ws, last_emit_tick, known_ids, last_merged_tick, emitted, pushRuns,
                       atSet, mergedTicks, defendCount, ing, cmd, weapons_free, link>>

SpecAspect == InitAspect /\ [][AspectWord]_vars


\* ------------------------------------------------ the lifecycle specification
\* connect() and stop() called from the server's thread, and the ingest thread
\* between its reads.  A read of a socket that this process has closed does not
\* return an end of stream: the socket was made with a 10 s timeout
\* (create_connection(..., timeout=10)), so the read gives up with "timed out",
\* or it fails with "Bad file descriptor"; which of the two depends on the
\* platform and on where the read was when the socket was closed.
MaxSockets == 3
RecvFailures == { "timed out", "Bad file descriptor" }

\* the steps of the lifecycle leave the world and the alert bookkeeping alone
LifeFrame(kind, args) ==
    /\ event' = Event(kind, args)
    /\ reply' = NoReply
    /\ UNCHANGED <<ws, last_emit_tick, known_ids, last_merged_tick, pushRuns, atSet,
                   mergedTicks, defendCount, ing, cmd, weapons_free>>

\* Controller.connect, the handshake succeeding
Connect ==
    LET s == link.made + 1
        start == link.thread.state \in { "none", "done" }
    IN  /\ link.made < MaxSockets
        /\ ~link.closing
        /\ LifeFrame("connect", <<s>>)
        /\ link' = [sock |-> s, connected |-> TRUE, stop |-> FALSE, closing |-> FALSE,
                    made |-> s,
                    closed |-> IF link.connected THEN link.closed \cup { link.sock }
                               ELSE link.closed,
                    thread |-> IF start THEN [state |-> "recv", sock |-> s]
                               ELSE link.thread]
        /\ emitted' = <<Line("connected", "", "", << >>)>>

\* Controller.stop, `self._stop.set()`
Stop ==
    /\ ~link.closing
    /\ LifeFrame("stop", << >>)
    /\ link' = [link EXCEPT !.stop = TRUE, !.closing = TRUE]
    /\ emitted' = << >>

\* Controller.stop, `if self.sock: self.sock.close()` and connected = False
StopClose ==
    /\ link.closing
    /\ LifeFrame("stop_close", << >>)
    /\ link' = [link EXCEPT !.closing = FALSE, !.connected = FALSE,
                            !.closed = IF link.sock # 0 THEN @ \cup { link.sock } ELSE @]
    /\ emitted' = << >>

\* iter_lines: sock.recv returns data that completes a line, which is yielded
RecvLine ==
    /\ link.thread.state = "recv"
    /\ link.thread.sock \notin link.closed
    /\ LifeFrame("recv_line", <<link.thread.sock>>)
    /\ link' = [link EXCEPT !.thread.state = "line"]
    /\ emitted' = << >>

\* iter_lines: the peer has closed the stream, sock.recv returns b"" and the
\* generator ends; _run_loop returns after the for loop
RecvEof ==
    /\ link.thread.state = "recv"
    /\ link.thread.sock \notin link.closed
    /\ LifeFrame("recv_eof", <<link.thread.sock>>)
    /\ link' = [link EXCEPT !.thread.state = "done"]
    /\ emitted' = << >>

\* iter_lines: sock.recv on a socket this process has closed raises;
\* _run_loop, `except Exception as e`: the error line and connected = False
RecvFails(why) ==
    /\ link.thread.state = "recv"
    /\ link.thread.sock \in link.closed
    /\ LifeFrame("recv_fails", <<link.thread.sock>>)
    /\ link' = [link EXCEPT !.thread.state = "done", !.connected = FALSE]
    /\ emitted' = <<Line("error", "", "", <<why>>)>>

\* _run_loop, the body of the for loop: `if self._stop.is_set(): break`, else
\* the line is processed and iter_lines reads on
LoopLine ==
    /\ link.thread.state = "line"
    /\ LifeFrame("line", <<link.thread.sock>>)
    /\ link' = [link EXCEPT !.thread.state = IF link.stop THEN "done" ELSE "recv"]
    /\ emitted' = << >>

NextLife ==
    \/ Connect
    \/ Stop
    \/ StopClose
    \/ RecvLine
    \/ RecvEof
    \/ \E why \in RecvFailures : RecvFails(why)
    \/ LoopLine

SpecLife == Init /\ [][NextLife]_vars


\* ------------------------------------------------ the dispatcher specification
\* Texts of every command shape, with and without a callsign in front, texts
\* that hold no command word, texts that start like a command and do not
\* complete it, and the empty and the blank text; a Blue bullseye, a Blue
\* flight and a Red contact are reported.
Chatter ==
    { << >>, <<Blank>>, <<"Hello">>, <<Blank, "Hello", "there", Blank>>,
      <<"Hello", "there">>, <<"viper11">> }
NearMisses ==
    { <<"alpha", "to">>, <<"cap", "add", "cap1">>, <<"push", "set">>,
      <<"declare", "5", "for", "20">>, <<"vector">>, <<"cap", "status", "+0:30">> }
Orders ==
    { <<"who">>, <<"list", "all">>, <<"callsigns", "unknown">>,
      <<"alpha">>, <<"viper11", "alpha", "check">>, <<"alpha", "check", "to", "home", "plate">>,
      <<"alpha", "tanker">>,
      <<"vector", "to", "home">>, <<"viper11", "vector", "tanker">>, <<"vector", "viper12">>,
      <<"snap">>, <<"viper11", "snap", "threat">>,
      <<"declare">>, <<"viper11", "declare">>, <<"declare", "bulls", "090", "for", "20">>,
      <<"declare", "090", "/", "5">>,
      <<"bogey", "dope">>, <<"viper11", "dope">>,
      <<"picture">>, <<"Picture">>, <<"Viper11", "picture">>, <<Blank, "Viper11", "Picture">>,
      <<"cap", "add", "cap1", "bulls", "090", "for", "20">>,
      <<"cap", "add", "cap1", "bulls", "090", "/", "20", "radius", "10", "alt", "20-40">>,
      <<"cap", "add", "cap2", "at", "fighter", "viper11">>,
      <<"cap", "add", "cap2", "at", "fighter", "viper11", "alt", "20-40">>,
      <<"cap", "assign", "viper11", "cap1">>, <<"cap", "assign", "ghost", "cap9">>,
      <<"cap", "status">>, <<"cap", "status", "cap1">>,
      <<"cap", "clear", "cap1">>, <<"cap", "clear", "all">>,
      <<"push", "set", "bulls", "090", "for", "20", "now">>,
      <<"push", "set", "bulls", "090", "for", "20", "in", "30s">>,
      <<"push", "set", "bulls", "090", "for", "20", "at", "+0:30">>,
      <<"push", "status">>, <<"push", "cancel">>, <<"push", "execute">> }
Utterances == Chatter \cup NearMisses \cup Orders

ParseFeed == { <<"be", BullseyeBlue>>, <<"b1", Viper11>>, <<"r1", Bandit20>> }

NextParse ==
    \/ \E f \in ParseFeed : UpdateEvent(f[1], f[2])
    \/ \E text \in Utterances : HandleText(text)

SpecParse == Init /\ [][NextParse]_vars


\* ---------------------------------------------- the group identity specification
\* Two Red contacts and two of no coalition, all at 25,000 ft and within 5 NM
\* of the next one, reported in any order, one of each also removed, and
\* `picture` with weapons free or tight.
UnkJ == Obj(TypeAir, "", "", "Su-27", "", <<12, 1>>, Some(7620))
UnkK == Obj(TypeAir, "", "", "Su-27", "", <<14, 1>>, Some(7620))

TieFeed == { <<"be", BullseyeBlue>>, <<"r1", MigA>>, <<"r2", MigB>>,
             <<"u1", UnkJ>>, <<"u2", UnkK>> }

NextTie ==
    \/ \E f \in TieFeed : UpdateEvent(f[1], f[2])
    \/ \E oid \in { "r2", "u2" } : RemoveEvent(oid)
    \/ \E wf \in BOOLEAN : SetWeaponsFree(wf)
    \/ CmdPicture("")

SpecTie == Init /\ [][NextTie]_vars


\* ------------------------------------------------- the query specification
\* Every request that asks and does not define, in a world with a bullseye, a
\* Blue flight assigned to a CAP site, a missile and a plan set to run in
\* 30 s.

\* handle_text, cmd == "who", "whoall", "whounk"
CmdWho(kind) ==
    /\ Answer(kind, << >>,
              [w |-> ws,
               reply |-> IF kind = "who" THEN who_line(ws)
                         ELSE IF kind = "whoall" THEN whoall(ws)
                         ELSE whounk(ws)])
    /\ UNCHANGED <<pushRuns, atSet>>

QueryFeed == { <<"be", BullseyeBlue>>, <<"b1", Viper11>>, <<"m1", R77Near>> }

NextQuery ==
    \/ \E f \in QueryFeed : UpdateEvent(f[1], f[2])
    \/ CmdCapAddBulls("cap1", 90, 20, 10, 20, 40)
    \/ CmdCapAssign("viper11", "cap1")
    \/ CmdPushSet(90, 20, "in 30s")
    \/ \E kind \in { "who", "whoall", "whounk" } : CmdWho(kind)
    \/ CmdPicture("")
    \/ CmdBogeyDope("viper11")
    \/ CmdDeclare("")
    \/ CmdDeclareBulls(90, 20)
    \/ CmdSnap("")
    \/ CmdVector("", "home")
    \/ CmdAlpha("", "")
    \/ CmdPushStatus

SpecQuery == Init /\ [][NextQuery]_vars


\* ------------------------------------------------- the registry specification
\* A Blue flight and a bullseye under their own ids, and one id that the feed
\* uses for a missile, for a flight and for a bullseye in turn; removals of
\* ids that are and that are not in the registry, and TIME events within and
\* beyond the time to live.
IndexFeed ==
    { <<"b1", Viper11>>, <<"be", BullseyeBlue>>,
      <<"x1", R77Near>>, <<"x1", Viper12>>, <<"x1", BullseyeRed>> }
IndexTimestamps == { 1, TTL * Sub + 2 }

NextIndex ==
    \/ \E f \in IndexFeed : UpdateEvent(f[1], f[2])
    \/ \E oid \in { "x1", "be", "zz" } : RemoveEvent(oid)
    \/ \E ts \in IndexTimestamps : TimeEvent(ts)

SpecIndex == Init /\ [][NextIndex]_vars


\* ------------------------------------------------ contacts at the planar origin
\* A bullseye at U = 0, V = 0; a flight there or 2 NM from it; and one id
\* reported as a contact there, as a contact 3 NM from it, or as a weapon with
\* U = 0 alone: whoever is at the origin is in MERGED range of the other.  The
\* clock stays at 0.
ViperOrigin == Obj(TypeAir, "Allies", "", "F-16C", "Viper11", <<0, 0>>, Some(6000))
ViperClose == Obj(TypeAir, "Allies", "", "F-16C", "Viper11", <<2, 0>>, Some(6000))
R77Abeam == Obj(TypeMissile, "Enemies", "", "R-77", "", <<0, 4>>, Some(5000))

OriginFeed ==
    { <<"be", BullseyeOrigin>>,
      <<"b1", ViperOrigin>>, <<"b1", ViperClose>>,
      <<"r1", RedAt(<<0, 0>>)>>, <<"r1", RedAt(<<3, 0>>)>>, <<"r1", R77Abeam>> }

NextOrigin ==
    \/ \E f \in OriginFeed : UpdateEvent(f[1], f[2])
    \/ TimeEvent(0)
    \/ CmdPicture("")
    \/ CmdBogeyDope("")
    \/ CmdDeclareBulls(90, 20)
    \/ CmdAlpha("", "")
    \/ CmdCapAddBulls("cap1", 90, 20, 10, 20, 40)
    \/ HandleText(<<"push", "set", "bulls", "090", "for", "20", "now">>)

SpecOrigin == Init /\ [][NextOrigin]_vars

\* ------------------------------------------------------------ the claims
Range(q) == { q[i] : i \in DOMAIN q }
KindsOf(lines) == { lines[i].kind : i \in DOMAIN lines }
PushKinds == { "PUSH", "PUSH_NONE" }
\* the plan was armed by `push set ... in 30s`
SetIn30s(p) == p.active /\ p.exec_time = Some(Val(p.created_at) + PushOffsetS * Sub)

C2_NeverFiresEarly ==
    [][ ( /\ event'.kind = "TIME"
          /\ ws.push_plan.active
          /\ ws'.time < Val(ws.push_plan.exec_time) )
        => ( /\ ws'.push_plan = ws.push_plan
             /\ pushRuns' = pushRuns
             /\ KindsOf(emitted') \cap PushKinds = {} ) ]_vars

\* C2, its case: a TIME event has brought the clock to the last step before
\* exec_time (T + 29.5 s when Sub = 2) and the plan set in 30s is still active
C2_Witness ==
    /\ event.kind = "TIME"
    /\ SetIn30s(ws.push_plan)
    /\ ws.time = Val(ws.push_plan.exec_time) - 1
    /\ pushRuns = 0

\* C3: `push execute` on an active plan sets exec_time to the current time,
\* broadcasts what the scheduled path would broadcast, answers "PUSH:
\* executed." and leaves the plan inactive; with no active plan it answers
\* "PUSH: no plan.", broadcasts nothing and changes nothing.
C3_ExecuteNow ==
    [][ event'.kind = "push_execute"
        => IF ws.push_plan.active
           THEN /\ reply'.text = "PUSH: executed."
                /\ ws'.push_plan = [ws.push_plan EXCEPT !.active = FALSE,
                                                        !.exec_time = Some(ws.time)]
                /\ Range(emitted') = push_lines(ws)
                /\ Len(emitted') = Cardinality(push_lines(ws))
                /\ pushRuns' = pushRuns + 1
           ELSE /\ reply'.text = "PUSH: no plan."
                /\ emitted' = << >>
                /\ ws' = ws
                /\ pushRuns' = pushRuns ]_vars

\* C3, its case: a plan set in 30s was executed by `push execute` before its
\* scheduled time, with a flight notified
C3_Witness ==
    /\ event.kind = "push_execute"
    /\ reply.text = "PUSH: executed."
    /\ ~ws.push_plan.active
    /\ atSet # None
    /\ ws.push_plan.exec_time = Some(ws.time)
    /\ ws.time < Val(atSet).exec_time
    /\ "PUSH" \in KindsOf(emitted)

C5_SinglePlan ==
    [][ /\ pushRuns' <= 1
        /\ (pushRuns' > pushRuns => ~ws'.push_plan.active)
        /\ (KindsOf(emitted') \cap PushKinds # {} => pushRuns' = pushRuns + 1)
        /\ ( (event'.kind = "push_set" /\ reply'.text = "PUSH: set BULLS, exec")
             => /\ ws'.push_plan.active
                /\ ws'.push_plan.brg = Some(event'.args[1])
                /\ ws'.push_plan.rng = Some(event'.args[2])
                /\ ws'.push_plan.target_uv =
                     bulls_to_uv(bull_uv(ws), event'.args[1], event'.args[2])
                /\ ws'.push_plan.exec_time =
                     Some(ws.time + Sub * Val(parse_time_offset(event'.args[3])))
                /\ pushRuns' = 0 ) ]_vars

\* C5, its case: a push set replaced an active plan with another target and
\* another exec_time, and the plan it armed has since been broadcast, once
C5_Witness ==
    /\ atSet # None
    /\ Val(atSet).replaced
    /\ event.kind = "TIME"
    /\ pushRuns = 1
    /\ ~ws.push_plan.active
    /\ \E i \in DOMAIN emitted :
         emitted[i].kind = "PUSH" /\ Some(emitted[i].args[1]) = ws.push_plan.brg

\* C6: the entities that get a PUSH line are those assigned to any CAP site
\* at the moment of execution that are still in the registry, one line each
\* ("PUSH: no assigned flights." when no site has an assignment).
C6_RecipientsAtExecution ==
    KindsOf(emitted) \cap PushKinds # {}
    => LET assigned == UNION { ws.cap_sites[i].val.assigned_ids : i \in DOMAIN ws.cap_sites }
       IN  IF assigned = {}
           THEN emitted = << Line("PUSH_NONE", "", "", << >>) >>
           ELSE /\ KindsOf(emitted) = { "PUSH" }
                /\ IdsOf(emitted, "PUSH") = assigned \cap Keys(ws.objects)
                /\ Len(emitted) = Cardinality(assigned \cap Keys(ws.objects))

\* C6, its case: b1 was the only flight assigned when the plan was set; b2
\* was assigned afterwards and b1 left the registry; the TIME event that
\* executed the plan notified b2 and not b1
C6_Witness ==
    /\ event.kind = "TIME"
    /\ atSet # None
    /\ Val(atSet).recips = { "b1" }
    /\ IdsOf(emitted, "PUSH") = { "b2" }
    /\ Len(ws.cap_sites) = 2

\* C7: `push cancel` leaves a fresh, inactive plan whether or not one was
\* active, and an inactive plan stays inactive and broadcasts nothing until a
\* `push set` is accepted.
C7_Cancel ==
    [][ /\ (event'.kind = "push_cancel"
            => ws'.push_plan = PushPlan /\ reply'.text = "PUSH: canceled.")
        /\ ( (~ws.push_plan.active /\ event'.kind # "push_set")
             => /\ ~ws'.push_plan.active
                /\ pushRuns' = pushRuns
                /\ KindsOf(emitted') \cap PushKinds = {} ) ]_vars

\* C7, its case: a plan was set and cancelled, and a TIME event has since
\* brought the clock past its exec_time without a broadcast
C7_Witness ==
    /\ event.kind = "TIME"
    /\ ws.push_plan = PushPlan
    /\ atSet # None
    /\ Val(atSet).exec_time >= PushOffsetS * Sub
    /\ ws.time >= Val(atSet).exec_time
    /\ pushRuns = 0
    /\ last_emit_tick = TickOf(ws.time)
    /\ recipients(ws) # {}

\* a Red air contact and a Blue air contact, both with a position, are within
\* MERGED_NM of each other in the world w
CloseRange(w) ==
    \E i, j \in DOMAIN w.objects :
       LET e == w.objects[i].val
           b == w.objects[j].val
       IN  /\ IsAirType(e.Type) /\ coalition_of(e) = "Red"
           /\ IsAirType(b.Type) /\ coalition_of(b) = "Blue"
           /\ e.uv \notin { None, <<0, 0>> } /\ b.uv \notin { None, <<0, 0>> }
           /\ Range2(e.uv, b.uv) <= MERGED_NM * MERGED_NM

\* C8: two successive MERGED lines are at least the cooldown (10 ticks) apart,
\* a MERGED line is logged only by a TIME event, at its tick, and only when a
\* Red and a Blue contact are within 3 NM.
C8_MergedRateLimited ==
    /\ Len(mergedTicks) = 2 => mergedTicks[2] - mergedTicks[1] >= MergedCooldown
    /\ "MERGED" \in KindsOf(emitted)
       => /\ event.kind = "TIME"
          /\ Len(emitted) = 1
          /\ CloseRange(ws)
          /\ mergedTicks # << >>
          /\ mergedTicks[Len(mergedTicks)] = TickOf(ws.time)
          /\ last_merged_tick = TickOf(ws.time)

\* C8, its case: a MERGED line was logged, and a TIME event has since opened a
\* new tick less than the cooldown later with the pair still within 3 NM: it
\* logged nothing
C8_Witness ==
    /\ event.kind = "TIME"
    /\ mergedTicks # << >>
    /\ last_emit_tick = TickOf(ws.time)
    /\ TickOf(ws.time) - mergedTicks[Len(mergedTicks)] \in 1..(MergedCooldown - 1)
    /\ CloseRange(ws)
    /\ emitted = << >>

\* C9: after a MERGED line at tick k, a TIME event that opens a tick k' with
\* k' - k >= cooldown while a Red and a Blue contact are within 3 NM logs a
\* MERGED line at k'.
C9_MergedRearms ==
    [][ ( /\ event'.kind = "TIME"
          /\ mergedTicks # << >>
          /\ TickOf(ws'.time) # last_emit_tick
          /\ TickOf(ws'.time) - mergedTicks[Len(mergedTicks)] >= MergedCooldown
          /\ CloseRange(ws') )
        => ( /\ "MERGED" \in KindsOf(emitted')
             /\ mergedTicks' = <<mergedTicks[Len(mergedTicks)], TickOf(ws'.time)>> ) ]_vars

\* C9, its case: a second MERGED line was logged exactly one cooldown after
\* the first
C9_Witness ==
    /\ event.kind = "TIME"
    /\ Len(mergedTicks) = 2
    /\ mergedTicks[2] - mergedTicks[1] = MergedCooldown
    /\ mergedTicks[2] = TickOf(ws.time)
    /\ "MERGED" \in KindsOf(emitted)

\* C10: at most one DEFEND line is ever logged for an object id; only an
\* UPDATE logs one, for the id it carries, and only when that id was never
\* seen before: every id an UPDATE carries is in the seen-set afterwards, which
\* no REMOVE or TIME event changes.
C10_DefendOncePerId ==
    [][ /\ \A oid \in DOMAIN defendCount' : defendCount'[oid] <= 1
        /\ known_ids \subseteq known_ids'
        /\ IF event'.kind = "UPDATE"
           THEN /\ known_ids' = known_ids \cup { event'.args[1] }
                /\ IdsOf(emitted', "DEFEND") \subseteq { event'.args[1] }
                /\ Len(emitted') <= 1
                /\ event'.args[1] \in known_ids => emitted' = << >>
           ELSE /\ "DEFEND" \notin KindsOf(emitted')
                /\ known_ids' = known_ids ]_vars

\* C10, its case: a DEFEND line was logged for m1; m1 is reported again as a
\* hostile missile within 30 NM of a Blue flight (it would qualify if it were
\* new) and the UPDATE logs nothing
C10_Witness ==
    /\ event = Event("UPDATE", <<"m1">>)
    /\ "m1" \in DOMAIN defendCount
    /\ defendCount["m1"] = 1
    /\ emitted = << >>
    /\ "m1" \in Keys(ws.objects)
    /\ defend_lines(ws, "m1", Get(ws.objects, "m1")) # << >>

\* the events of the telemetry stream (the steps of the ingest loop)
IngestKinds == { "TIME", "REMOVE", "UPDATE" }

BullseyeIds(w) == { w.bullseye_by_coal[i].val : i \in DOMAIN w.bullseye_by_coal }

C13_AltBand ==
    \A i \in DOMAIN ws.cap_sites :
       ws.cap_sites[i].val.alt_hi_ft >= ws.cap_sites[i].val.alt_lo_ft + 1000

\* a `cap add` (of either form) whose altitude argument has its high value
\* not above its low value
CapAddReversed(e) ==
    \/ e.kind = "cap_add_bulls" /\ e.args[6] <= e.args[5]
    \/ e.kind = "cap_add_at_fighter" /\ e.args[5] <= e.args[4]

\* C13, its case: a `cap add ... at fighter` with a reversed altitude argument
\* has made a site, next to one made by `cap add ... bulls`
C13_Witness ==
    /\ event.kind = "cap_add_at_fighter"
    /\ CapAddReversed(event)
    /\ reply.text = "CAP: set at position"
    /\ Keys(ws.cap_sites) = { "cap1", "cap2" }
    /\ Get(ws.cap_sites, "cap2").alt_lo_ft = event.args[4] * 1000

\* C14: a `cap add` whose altitude band is malformed (high not above low) is
\* answered with a rejection and leaves cap_sites and push_plan unchanged.
C14_MalformedRejected ==
    [][ CapAddReversed(event')
        => /\ ws'.cap_sites = ws.cap_sites
           /\ ws'.push_plan = ws.push_plan
           /\ reply'.text \notin { "CAP: set at BULLS", "CAP: set at position" } ]_vars

\* C16: while an entity stays in the registry, a home_uv that is set is not
\* changed by any event; home_uv becomes set only by an UPDATE of that entity,
\* an air entity below 300 m with a speed below 60 kt, at the position it reports.
C16_HomePlateOnce ==
    [][ \A oid \in (DOMAIN ws.tracks) \cap (DOMAIN ws'.tracks) :
           /\ ws.tracks[oid].home_uv # None
              => ws'.tracks[oid].home_uv = ws.tracks[oid].home_uv
           /\ (ws.tracks[oid].home_uv = None /\ ws'.tracks[oid].home_uv # None)
              => /\ event' = Event("UPDATE", <<oid>>)
                 /\ ws'.tracks[oid].home_uv = Get(ws'.objects, oid).uv
                 /\ Val(Get(ws'.objects, oid).alt) < 300
                 /\ BelowSixtyKnots(ws.tracks[oid].spd) ]_vars

\* C16, its case: the flight, whose home plate is its first place, reports
\* from the other place, again below 300 m and with a speed of 0: the home
\* plate is still the first place
C16_Witness ==
    /\ event = Event("UPDATE", <<"b1">>)
    /\ "b1" \in DOMAIN ws.tracks
    /\ ws.tracks["b1"].home_uv = <<5, 0>>
    /\ Get(ws.objects, "b1") = ViperLowAway
    /\ BelowSixtyKnots(ws.tracks["b1"].spd)
    /\ ws.tracks["b1"].last_t # None

\* the groups (their places in the list) that hold the contact o
GroupsWith(gs, o) == { k \in DOMAIN gs : \E i \in DOMAIN gs[k] : gs[k][i] = o }

\* C17: for the contacts with a planar position, group_contacts puts every
\* contact in exactly one group; two contacts within the range and altitude
\* thresholds of each other are in the same group, so are A and C when A is
\* within them of B and B of C, and two contacts of different groups are never
\* within them; `picture` reports that many groups.
C17_SingleLink ==
    LET contacts == reds(ws) \o unks(ws)
        S == { o \in Range(contacts) : uv_of(o) # None }
        gs == group_contacts(contacts)
    IN  /\ \A o \in S : Cardinality(GroupsWith(gs, o)) = 1
        /\ \A k \in DOMAIN gs :
              /\ Range(gs[k]) \subseteq S
              /\ Cardinality(Range(gs[k])) = Len(gs[k])
        /\ \A a, b, c \in S :
              close(a, b) /\ close(b, c)
                 => GroupsWith(gs, a) = GroupsWith(gs, b) /\ GroupsWith(gs, b) = GroupsWith(gs, c)
        /\ \A a, b \in S : GroupsWith(gs, a) # GroupsWith(gs, b) => ~close(a, b)
        /\ (event.kind = "picture" /\ reply.text = "PICTURE: <lead>. <groups>")
              => reply.args[1] = Len(gs)

\* C17, its case: `picture` reports one three-ship of the contacts at 10, 14
\* and 18 NM, the first and the last of which are 8 NM apart
C17_Witness ==
    /\ event.kind = "picture"
    /\ Range(reds(ws) \o unks(ws)) = { MigA, MigB, MigC }
    /\ ~close(MigA, MigC)
    /\ reply.text = "PICTURE: <lead>. <groups>"
    /\ reply.args[1] = 1
    /\ reply.args[2][1].size = <<"three-ship">>

EndToEndScene ==
    /\ find_bull(ws) = Some(BullseyeOrigin)
    /\ reds(ws) \o unks(ws) = << Bandit20 >>

\* C20: in that scene `picture` returns "PICTURE: single group. Nearest group
\* BULLS 090 for 20, single, bandit, angels 25, HOT." ("hostile" for "bandit"
\* when weapons free)
C20_EndToEnd ==
    (event = Event("picture", <<"">>) /\ EndToEndScene)
       => reply = Reply("PICTURE: <lead>. <groups>",
                        << 1,
                           << [label |-> "Nearest group", brg |-> 90, rng |-> 20,
                               size |-> <<"single">>, heavy |-> FALSE,
                               id |-> IF weapons_free THEN "hostile" ELSE "bandit",
                               angels |-> <<25>>, aspect |-> <<"HOT">>] >> >>)

\* C19: the entries of a picture reply are at most 5, labelled "Nearest
\* group", "Second group", ... in that order; entry i describes a group of
\* contacts that has fewer than i groups nearer to the bullseye (by the exact
\* range of the centroid) and at least i groups no farther than itself; the
\* lead counts all groups.
C19_NearestFirstUpToFive ==
    (event.kind = "picture" /\ reply.text = "PICTURE: <lead>. <groups>")
    => LET gs == group_contacts(reds(ws) \o unks(ws))
           sm == [k \in DOMAIN gs |-> summary_of(gs[k], bull_uv(ws), weapons_free)]
           listed == reply.args[2]
           nearer(k) == { j \in DOMAIN sm : ~NoFarther(sm[k], sm[j]) }
           noFarther(k) == { j \in DOMAIN sm : NoFarther(sm[j], sm[k]) }
       IN  /\ reply.args[1] = Len(gs)
           /\ Len(listed) = (IF Len(gs) < 5 THEN Len(gs) ELSE 5)
           /\ \A i \in DOMAIN listed :
                 /\ listed[i].label = PictureLabels[i]
                 /\ \E k \in DOMAIN sm :
                       /\ listed[i].brg = sm[k].brg
                       /\ listed[i].rng = RoundRange(sm[k].rng2, sm[k].size)
                       /\ listed[i].size = size_word(sm[k].size)
                       /\ Cardinality(nearer(k)) < i
                       /\ Cardinality(noFarther(k)) >= i
           /\ \A i, j \in DOMAIN listed : i < j => listed[i].rng <= listed[j].rng

\* C19, its case: six groups, the farthest reported first and the nearest
\* last; the picture lists five, from 10 NM to 50 NM
C19_Witness ==
    /\ event.kind = "picture"
    /\ Len(ws.objects) = 7
    /\ ws.objects[2].val = RedAt(<<1, 61>>)
    /\ ws.objects[7].val = RedAt(<<11, 1>>)
    /\ reply.args[1] = 6
    /\ Len(reply.args[2]) = 5
    /\ reply.args[2][1].rng = 10
    /\ reply.args[2][5].rng = 50

\* the replies that say UNABLE (after the callsign, or after "CAP:" / "PUSH:")
UnableTexts ==
    { "UNABLE: no friendly reference available.", "UNABLE: declare (no friendly reference).",
      "UNABLE: snap (no friendly reference).", "UNABLE: snap.",
      "UNABLE: vector (no friendly reference).", "UNABLE: vector home.",
      "UNABLE: no tanker.", "UNABLE: vector tanker.", "UNABLE: target not found.",
      "UNABLE: vector.", "UNABLE: alpha check.", "UNABLE: command.",
      "CAP: UNABLE - no bullseye.", "CAP: UNABLE - fighter not found.",
      "CAP: UNABLE - fighter pos unknown.", "PUSH: UNABLE - no bullseye.",
      "PUSH: UNABLE - bad time" }

\* the request e, asked in the world w, needs a bullseye, a friendly
\* reference or a target entity that cannot be resolved there
ResolutionFails(e, w) ==
    \/ /\ e.kind = "picture"
       /\ reds(w) \o unks(w) # << >> /\ bull_uv(w) = None
    \/ /\ e.kind \in { "declare_bulls", "alpha", "cap_add_bulls", "push_set" }
       /\ bull_uv(w) = None
    \/ /\ e.kind \in { "bogeydope", "declare", "snap", "vector" }
       /\ friendly_ref(w, e.args[1]) = None
    \/ /\ e.kind = "cap_assign"
       /\ find_callsign_blue(w, e.args[1]) = None
    \/ /\ e.kind = "vector"
       /\ \/ e.args[2] = "tanker" /\ nearest_tanker(w) = None
          \/ e.args[2] \notin { "home", "tanker" } /\ find_callsign_blue(w, e.args[2]) = None

\* C15: a request whose bullseye, friendly reference or target entity cannot
\* be resolved is answered with an UNABLE reply and leaves the world state
\* unchanged.
C15_UnableReplies ==
    [][ ResolutionFails(event', ws) => (reply'.text \in UnableTexts /\ ws' = ws) ]_vars

\* C21: bulls_to_uv of the bearing and range brg_rng_from_xy returned gives
\* back the target, here to within 0.01 NM (18 m) in each coordinate
C21_RoundTrip ==
    event.kind = "round_trip"
    => LET t == event.args[2]
           back == reply.args[3]
           off(i) == IF back[i] >= 1000 * t[i] THEN back[i] - 1000 * t[i]
                     ELSE 1000 * t[i] - back[i]
       IN  off(1) <= 10 /\ off(2) <= 10

CloseRangeAny(w) ==
    \E i, j \in DOMAIN w.objects :
       LET e == w.objects[i].val
           b == w.objects[j].val
       IN  /\ IsAirType(e.Type) /\ coalition_of(e) \in { "Red", "Unknown" }
           /\ IsAirType(b.Type) /\ coalition_of(b) = "Blue"
           /\ e.uv \notin { None, <<0, 0>> } /\ b.uv \notin { None, <<0, 0>> }
           /\ Range2(e.uv, b.uv) <= MERGED_NM * MERGED_NM

\* C23: a TIME event that opens a new tick at least the cooldown after the
\* last MERGED line, while a Red or Unknown contact and a Blue contact are
\* within 3 NM, logs a MERGED line, also when no Red contact exists.
C23_UnknownMerges ==
    [][ ( /\ event'.kind = "TIME"
          /\ TickOf(ws'.time) # last_emit_tick
          /\ TickOf(ws'.time) - last_merged_tick >= MergedCooldown
          /\ CloseRangeAny(ws') )
        => "MERGED" \in KindsOf(emitted') ]_vars

\* the Blue air contacts with a position in the world w
FriendliesWithPosition(w) ==
    { w.objects[i].val : i \in { j \in DOMAIN w.objects :
          /\ IsAirType(w.objects[j].val.Type)
          /\ coalition_of(w.objects[j].val) = "Blue"
          /\ w.objects[j].val.uv \notin { None, <<0, 0>> } } }

\* the weapon m, reported for the first time, calls for a DEFEND line in w
CallsForDefend(w, m) ==
    /\ IsWeaponType(m.Type) \/ HasMissileHint(m.Name)
    /\ coalition_of(m) # "Blue"
    /\ m.uv \notin { None, <<0, 0>> }
    /\ \E f \in FriendliesWithPosition(w) :
          Range2(f.uv, m.uv) <= MISSILE_ALERT_MAX_RANGE_NM * MISSILE_ALERT_MAX_RANGE_NM

\* C24: the first UPDATE of an id logs a DEFEND line if and only if the object
\* is a missile, is not Blue, has a position and some Blue air contact with a
\* position is within 30 NM of it; the line carries the id, the label of a
\* nearest such contact and the bearing and rounded range from it to the
\* missile. Otherwise the UPDATE logs nothing.
C24_DefendCondition ==
    [][ ( event'.kind = "UPDATE" /\ event'.args[1] \notin known_ids )
        => LET oid == event'.args[1]
               m == Get(ws'.objects, oid)
               fs == FriendliesWithPosition(ws)
           IN  IF CallsForDefend(ws, m)
               THEN /\ Len(emitted') = 1
                    /\ emitted'[1].kind = "DEFEND"
                    /\ emitted'[1].oid = oid
                    /\ \E f \in fs :
                          /\ \A g \in fs : Range2(f.uv, m.uv) <= Range2(g.uv, m.uv)
                          /\ emitted'[1].label = friendly_label(f)
                          /\ emitted'[1].args =
                               << Bearing(m.uv[1] - f.uv[1], m.uv[2] - f.uv[2]),
                                  RoundSqrt(Range2(f.uv, m.uv)) >>
               ELSE emitted' = << >> ]_vars

\* C24, its case: with both flights in the registry, the missile 30 NM from
\* the nearer one was reported for the first time and the DEFEND line names
\* that flight at BRAA 090/30
C24_Witness ==
    /\ event = Event("UPDATE", <<"m2">>)
    /\ "m2" \in DOMAIN defendCount
    /\ Len(emitted) = 1
    /\ emitted[1].label = "Viper12"
    /\ emitted[1].args = <<90, 30>>
    /\ Keys(ws.objects) = { "b1", "b2", "m2" }

\* every id the world w holds a reference to
ReferencedIds(w) ==
    Keys(w.objects) \cup DOMAIN w.tracks \cup DOMAIN w.last_seen
      \cup DOMAIN w.missiles \cup BullseyeIds(w) \cup recipients(w)

\* C25: after a REMOVE of an id, the id is in none of objects, tracks,
\* last_seen, missiles, the bullseye slots and the CAP assignment sets; the
\* entries of every other id, the other bullseye slots and the other
\* assignments are as before; a REMOVE of an id the world holds no reference
\* to changes nothing.
C25_RemovePurges ==
    [][ event'.kind = "REMOVE"
        => LET oid == event'.args[1]
           IN  /\ oid \notin ReferencedIds(ws')
               /\ ws'.objects = SelectSeq(ws.objects, LAMBDA e : e.key # oid)
               /\ DOMAIN ws'.tracks = DOMAIN ws.tracks \ {oid}
               /\ \A k \in DOMAIN ws'.tracks : ws'.tracks[k] = ws.tracks[k]
               /\ DOMAIN ws'.last_seen = DOMAIN ws.last_seen \ {oid}
               /\ \A k \in DOMAIN ws'.last_seen : ws'.last_seen[k] = ws.last_seen[k]
               /\ DOMAIN ws'.missiles = DOMAIN ws.missiles \ {oid}
               /\ \A k \in DOMAIN ws'.missiles : ws'.missiles[k] = ws.missiles[k]
               /\ Keys(ws'.bullseye_by_coal) \subseteq Keys(ws.bullseye_by_coal)
               /\ \A i \in DOMAIN ws.bullseye_by_coal :
                     LET slot == ws.bullseye_by_coal[i]
                     IN  slot.val # oid
                         => /\ slot.key \in Keys(ws'.bullseye_by_coal)
                            /\ Get(ws'.bullseye_by_coal, slot.key) = slot.val
               /\ Len(ws'.cap_sites) = Len(ws.cap_sites)
               /\ \A i \in DOMAIN ws.cap_sites :
                     /\ ws'.cap_sites[i].key = ws.cap_sites[i].key
                     /\ ws'.cap_sites[i].val =
                          [ws.cap_sites[i].val EXCEPT !.assigned_ids = @ \ {oid}]
               /\ ws'.time = ws.time
               /\ ws'.push_plan = ws.push_plan
               /\ oid \notin ReferencedIds(ws) => ws' = ws ]_vars

\* C25, its case: the flight b1 and the missile were reported and are gone,
\* the last REMOVE was that of b1; both bullseye slots still point to the
\* navaid and both CAP sites exist, one of them still holding the other flight
C25_Witness ==
    /\ event = Event("REMOVE", <<"b1">>)
    /\ { "b1", "m1" } \subseteq known_ids
    /\ Keys(ws.objects) = { "b2", "be" }
    /\ Len(ws.bullseye_by_coal) = 2
    /\ Len(ws.cap_sites) = 2
    /\ recipients(ws) = { "b2" }
    /\ DOMAIN ws.missiles = {}

\* C26: a `cap add` of either form that succeeds leaves its name bound to a
\* site with the centre, radius and altitude block of the command and with no
\* assignment, whether or not the name was bound before; every other site,
\* and the rest of the world, is as before.
C26_CapAddReplaces ==
    [][ reply'.text \in { "CAP: set at BULLS", "CAP: set at position" }
        => LET name == event'.args[1]
               site == Get(ws'.cap_sites, name)
               bulls == event'.kind = "cap_add_bulls"
               radius == IF bulls THEN event'.args[4] ELSE event'.args[3]
               lo == IF bulls THEN event'.args[5] ELSE event'.args[4]
               hi == IF bulls THEN event'.args[6] ELSE event'.args[5]
           IN  /\ Keys(ws'.cap_sites) = Keys(ws.cap_sites) \cup { name }
               /\ site.name = name
               /\ site.assigned_ids = {}
               /\ site.radius_nm = radius
               /\ site.alt_lo_ft = lo * 1000
               /\ site.alt_hi_ft = hi * 1000
               /\ site.center_uv =
                    IF bulls
                    THEN bulls_to_uv(bull_uv(ws), event'.args[2], event'.args[3])
                    ELSE Get(ws.objects, "b1").uv
               /\ \A i \in DOMAIN ws.cap_sites :
                     ws.cap_sites[i].key # name => ws'.cap_sites[i] = ws.cap_sites[i]
               /\ [ws' EXCEPT !.cap_sites = << >>] = [ws EXCEPT !.cap_sites = << >>] ]_vars

\* C26, its case: both sites exist, the flight is on cap2 only, and cap1, to
\* which it can be assigned, has just been defined at another place than
\* where a site is first defined in this feed
C26_Witness ==
    /\ event.kind = "cap_add_bulls"
    /\ event.args = <<"cap1", 180, 20, 15, 10, 20>>
    /\ Keys(ws.cap_sites) = { "cap1", "cap2" }
    /\ Get(ws.cap_sites, "cap1").assigned_ids = {}
    /\ Get(ws.cap_sites, "cap1").center_uv = <<1, -19>>
    /\ Get(ws.cap_sites, "cap2").assigned_ids = { "b1" }

\* the Blue air contacts of w whose name or callsign contains q
BlueMatches(w, q) ==
    { w.objects[i].key : i \in { j \in DOMAIN w.objects :
          /\ q # ""
          /\ IsAirType(w.objects[j].val.Type)
          /\ coalition_of(w.objects[j].val) = "Blue"
          /\ \/ NormContains(w.objects[j].val.Name, q)
             \/ NormContains(w.objects[j].val.Callsign, q) } }

\* C27 as stated: `cap assign` with a name that is not a site replies
\* "CAP: <name> not found." and changes nothing, and with a callsign that
\* matches no Blue flight replies "CAP: UNABLE ..." and changes nothing.
C27_AssignErrors ==
    [][ event'.kind = "cap_assign"
        => /\ event'.args[2] \notin Keys(ws.cap_sites)
              => reply' = Reply("CAP: not found.", <<event'.args[2]>>) /\ ws' = ws
           /\ BlueMatches(ws, event'.args[1]) = {}
              => reply'.text = "CAP: UNABLE - fighter not found." /\ ws' = ws ]_vars

\* C27, amended: `cap assign` with a callsign that matches no Blue flight
\* replies "CAP: UNABLE ..." whether or not the site exists; with a callsign
\* that matches one and a name that is not a site it replies
\* "CAP: <name> not found."; in both cases nothing changes and no site is
\* made.  Otherwise the id of the matching flight is added to that site and
\* to no other, and nothing else changes.
C27_AssignResolvesFlightFirst ==
    [][ event'.kind = "cap_assign"
        => LET q == event'.args[1]
               name == event'.args[2]
           IN  IF BlueMatches(ws, q) = {}
               THEN reply'.text = "CAP: UNABLE - fighter not found." /\ ws' = ws
               ELSE IF name \notin Keys(ws.cap_sites)
               THEN reply' = Reply("CAP: not found.", <<name>>) /\ ws' = ws
               ELSE /\ reply'.text = "CAP: assigned"
                    /\ reply'.args[2] = name
                    /\ Len(ws'.cap_sites) = Len(ws.cap_sites)
                    /\ \E oid \in BlueMatches(ws, q) :
                          \A i \in DOMAIN ws.cap_sites :
                             ws'.cap_sites[i] =
                               IF ws.cap_sites[i].key = name
                               THEN [ws.cap_sites[i] EXCEPT !.val.assigned_ids = @ \cup {oid}]
                               ELSE ws.cap_sites[i]
                    /\ [ws' EXCEPT !.cap_sites = << >>] = [ws EXCEPT !.cap_sites = << >>] ]_vars

\* C27, its case: the flight is in the registry and on cap2, and its
\* assignment to cap1, which is not defined, was answered "not found"
C27_Witness ==
    /\ event = Event("cap_assign", <<"viper11", "cap1">>)
    /\ reply = Reply("CAP: not found.", <<"cap1">>)
    /\ "b1" \in Keys(ws.objects)
    /\ Keys(ws.cap_sites) = { "cap2" }
    /\ Get(ws.cap_sites, "cap2").assigned_ids = { "b1" }

\* C28: a `cap status` that evaluates a site (every site when no name is
\* given, the named site when it exists) leaves in its assignment set exactly
\* the ids that are in the registry; a site it does not evaluate, and every
\* site when the reply is "CAP: none." or "CAP: <name> not found.", keeps its
\* set as it was; nothing else changes.
C28_StatusPrunes ==
    [][ event'.kind = "cap_status"
        => LET name == event'.args[1]
               evaluated(i) == name = "" \/ ws.cap_sites[i].key = name
           IN  /\ Len(ws'.cap_sites) = Len(ws.cap_sites)
               /\ \A i \in DOMAIN ws.cap_sites :
                     ws'.cap_sites[i] =
                       IF evaluated(i)
                       THEN [ws.cap_sites[i] EXCEPT
                               !.val.assigned_ids = @ \cap Keys(ws.objects)]
                       ELSE ws.cap_sites[i]
               /\ [ws' EXCEPT !.cap_sites = << >>] = [ws EXCEPT !.cap_sites = << >>]
               /\ reply'.text # "CAP: status" => ws' = ws ]_vars

\* C28, its case: `cap status cap1` was evaluated while b1, which is not in
\* the registry, is in the set of cap2: cap1 holds the flight that is in the
\* registry and nothing else, cap2 still holds b1
C28_Witness ==
    /\ event = Event("cap_status", <<"cap1">>)
    /\ reply.text = "CAP: status"
    /\ "b1" \notin Keys(ws.objects)
    /\ "b1" \in known_ids
    /\ Keys(ws.cap_sites) = { "cap1", "cap2" }
    /\ Get(ws.cap_sites, "cap1").assigned_ids = { "b2" }
    /\ "b1" \in Get(ws.cap_sites, "cap2").assigned_ids

\* the entity o is within the radius of the site cap and its altitude is
\* known and within the band of the site
WithinRadiusAndBand(cap, o) ==
    /\ Range2(cap.center_uv, o.uv) <= cap.radius_nm * cap.radius_nm
    /\ o.alt # None
    /\ cap.alt_lo_ft * 10000 <= Val(o.alt) * M_TO_FT_E4
    /\ Val(o.alt) * M_TO_FT_E4 <= cap.alt_hi_ft * 10000

\* C29: the reply of `cap status` has, for every site it lists, one entry for
\* each assigned entity; the entry says on-station if and only if the entity
\* has a position within the radius and a known altitude within the band,
\* "pos unknown" if it has no position, and off-station otherwise.
C29_OnStation ==
    ( event.kind = "cap_status" /\ reply.text = "CAP: status" )
    => \A i \in DOMAIN reply.args :
          LET line == reply.args[i]
              cap == Get(ws.cap_sites, line.name)
          IN  /\ { s.oid : s \in line.shows } = cap.assigned_ids
              /\ \A s \in line.shows :
                    LET o == Get(ws.objects, s.oid)
                    IN  s.state =
                          IF o.uv \in { None, <<0, 0>> } THEN "pos unknown"
                          ELSE IF WithinRadiusAndBand(cap, o) THEN "on-station"
                          ELSE "off-station"

\* C29, its case: the flight is 10 NM from the centre at 6097 m (20,003 ft),
\* on the edge of the radius and just inside the band, and `cap status`
\* reports it on-station at 10 NM
C29_Witness ==
    /\ event.kind = "cap_status"
    /\ reply.text = "CAP: status"
    /\ "b1" \in Keys(ws.objects)
    /\ Get(ws.objects, "b1") = ViperEdge
    /\ \E s \in reply.args[1].shows :
          s.oid = "b1" /\ s.state = "on-station" /\ s.rng = Some(10)

\* C30: a track that no TIME event has sampled yet (last_t is None, so there
\* is no position history to take a velocity from) has not learned a home
\* plate: home-plate discovery does not take the missing velocity for a low
\* speed.
C30_NoHomeWithoutHistory ==
    \A oid \in DOMAIN ws.tracks :
       ws.tracks[oid].last_t = None => ws.tracks[oid].home_uv = None

\* the bullseye navaids of the registry of w
BullseyesIn(w) ==
    { w.objects[i].val : i \in { j \in DOMAIN w.objects :
                                   IsBullseyeType(w.objects[j].val.Type) } }

\* C31: find_bull returns an entity of the registry or None; while a bullseye
\* navaid is in the registry it returns a bullseye navaid (that of the first
\* preferred coalition that has one, else any), and without one the first
\* Blue air entity, None when there is none.
C31_FindBull ==
    LET bull == find_bull(ws)
        regs == { ws.objects[i].val : i \in DOMAIN ws.objects }
    IN  /\ bull # None => Val(bull) \in regs
        /\ IF BullseyesIn(ws) # {}
           THEN /\ bull # None
                /\ Val(bull) \in BullseyesIn(ws)
                /\ (\E o \in BullseyesIn(ws) : o.Coalition = "Allies")
                   => Val(bull).Coalition = "Allies"
           ELSE bull = (IF blues(ws) = << >> THEN None ELSE Some(blues(ws)[1]))

\* the absolute difference of two whole angles, wrapped to 0..180
AngularDifference(a, b) ==
    LET d == (a - b + 360) % 360
    IN  IF d <= 180 THEN d ELSE 360 - d

\* C32: for every whole heading and bearing, aspect_word gives HOT exactly
\* when the angular difference is below 45, a beam word exactly from 70 to
\* 110, COLD exactly above 135 and a flank word otherwise, the beam and flank
\* words with the compass word of the heading; with no heading or no bearing
\* it gives UNK.
C32_AspectBands ==
    event.kind = "aspect_word"
    => LET hdg == event.args[1]
           brg == event.args[2]
           word == reply.args[1]
       IN  IF hdg = None \/ brg = None THEN reply.args = <<"UNK">>
           ELSE LET diff == AngularDifference(Val(hdg), Val(brg))
                    compass == Dirs[(((2 * Val(hdg) + 45) \div 90) % 8) + 1]
                IN  /\ word \in { "HOT", "beam", "flank", "COLD" }
                    /\ word = "HOT" <=> diff < 45
                    /\ word = "beam" <=> (70 <= diff /\ diff <= 110)
                    /\ word = "COLD" <=> diff > 135
                    /\ word \in { "beam", "flank" } => reply.args = <<word, compass>>
                    /\ word \in { "HOT", "COLD" } => reply.args = <<word>>

\* C32, its case: heading 100 at bearing 030, a difference of exactly 70, is
\* "beam east"
C32_Witness ==
    /\ event = Event("aspect_word", <<Some(100), Some(30)>>)
    /\ reply.args = <<"beam", "east">>

\* C33: when the ingest thread, reading the current socket, leaves its loop
\* after stop() was called (and no connect() since), it logs no "[error] run loop" line: the thread that
\* was blocked in the read ends as on an end of stream.
C33_CleanStop ==
    [][ ( /\ link.thread.state \in { "recv", "line" }
          /\ link'.thread.state = "done"
          /\ link.thread.sock = link.sock
          /\ link.stop )
        => "error" \notin KindsOf(emitted') ]_vars

\* C40: when connect() returns, an ingest thread is reading the socket it has
\* just made.
C40_ReconnectHasReader ==
    [][ link'.made # link.made
        => /\ link'.connected
           /\ link'.thread.state \in { "recv", "line" }
           /\ link'.thread.sock = link'.sock ]_vars

\* the commands handle_text has a branch for
CommandKinds ==
    { "who", "whoall", "whounk", "alpha", "vector", "snap", "declare", "declare_bulls",
      "bogeydope", "picture", "cap_add_bulls", "cap_add_at_fighter", "cap_assign",
      "cap_status", "cap_clear", "push_set", "push_status", "push_cancel", "push_execute" }

\* C34: every text is parsed as a command handle_text has a branch for, and
\* handle_text answers it from that branch: it neither falls through to
\* "UNABLE: command." nor fails; a text of no command shape is parsed as
\* picture with the text (without the blanks around it) as callsign and is
\* answered with the picture reply addressed to that callsign.
C34_EveryTextAnswered ==
    [][ event'.kind = "text" =>
          LET text == event'.args[1]
              c == parse_command(text)
          IN  /\ c.cmd \in CommandKinds
              /\ text \in Chatter \cup NearMisses =>
                    /\ c = Command("picture", Some(Strip(text)), None)
                    /\ reply' = picture(ws, weapons_free, TextOf(Strip(text)))
              /\ reply'.text \notin { "UNABLE: command.", "raise" } ]_vars

\* C35: after every TIME event the simulation clock is the timestamp of that
\* event, also when the timestamp is smaller than the clock was, or is 0.
C35_ClockFollowsStream ==
    [][ event'.kind = "TIME" => ws'.time = event'.args[1] ]_vars

\* the members of the group g that are Red, and those that are not
RedsIn(g) == { k \in DOMAIN g : coalition_of(g[k]) = "Red" }
OthersIn(g) == { k \in DOMAIN g : coalition_of(g[k]) # "Red" }

\* C36: the identity of a picture group is that of most of its members, and
\* of the Red ones when as many are Red as are not (bandit, hostile when
\* weapons free), in whatever order the feed reported the members; `picture`
\* reports the groups with these identities.
C36_MajorityTieBandit ==
    LET gs == group_contacts(reds(ws) \o unks(ws))
        id(g) == IF Cardinality(RedsIn(g)) >= Cardinality(OthersIn(g))
                 THEN (IF weapons_free THEN "Hostile" ELSE "Bandit")
                 ELSE "Bogey"
    IN  /\ \A k \in DOMAIN gs : majority(gs[k], weapons_free) = id(gs[k])
        /\ (event.kind = "picture" /\ reply.text = "PICTURE: <lead>. <groups>")
              => /\ reply.args[1] = Len(gs)
                 /\ \A i \in DOMAIN reply.args[2] :
                       \E k \in DOMAIN gs :
                          /\ reply.args[2][i].size = size_word(Len(gs[k]))
                          /\ reply.args[2][i].id = Lower(id(gs[k]))

\* C36, its case: the contact of no coalition was reported before the Red one;
\* `picture` reports the two as one two-ship, bandit
C36_Witness ==
    /\ event.kind = "picture"
    /\ ~weapons_free
    /\ Keys(ws.objects) = { "be", "u1", "r1" }
    /\ \E i, j \in DOMAIN ws.objects :
          i < j /\ ws.objects[i].key = "u1" /\ ws.objects[j].key = "r1"
    /\ reply.text = "PICTURE: <lead>. <groups>"
    /\ reply.args[1] = 1
    /\ reply.args[2][1].size = <<"two-ship">>
    /\ reply.args[2][1].id = "bandit"

\* the requests that ask, and those that define
QueryKinds ==
    { "who", "whoall", "whounk", "picture", "bogeydope", "declare", "declare_bulls",
      "snap", "vector", "alpha", "push_status" }
DefinitionKinds ==
    { "cap_add_bulls", "cap_add_at_fighter", "cap_assign", "cap_status", "cap_clear",
      "push_set", "push_cancel", "push_execute" }

C38_RegistryConsistent ==
    /\ DOMAIN ws.tracks = Keys(ws.objects)
    /\ DOMAIN ws.last_seen = Keys(ws.objects)
    /\ DOMAIN ws.missiles \subseteq Keys(ws.objects)
    /\ \A oid \in DOMAIN ws.tracks : ws.tracks[oid].obj = Get(ws.objects, oid)
    /\ \A i \in DOMAIN ws.bullseye_by_coal : ws.bullseye_by_coal[i].val \in Keys(ws.objects)

\* C38, its case: after a TIME event beyond the time to live of the others,
\* the id that was reported as a missile and then as a bullseye is the only
\* one registered, with its missile entry and the bullseye slot it took
C38_Witness ==
    /\ event.kind = "TIME"
    /\ Keys(ws.objects) = { "x1" }
    /\ "x1" \in known_ids
    /\ Get(ws.objects, "x1") = BullseyeRed
    /\ "x1" \in DOMAIN ws.missiles
    /\ ws.missiles["x1"] = R77Near
    /\ Values(ws.bullseye_by_coal) = <<"x1">>
    /\ ws.time = TTL * Sub + 2

\* a reported transform with U = 0 and V = 0, and the contacts of a list that
\* are reported elsewhere
AtOrigin(o) == o.uv = <<0, 0>>
Placed(q) == SelectSeq(q, LAMBDA o : o.uv # None /\ ~AtOrigin(o))

\* the requests that start from the bullseye (the text is `push set ...`)
BullseyeKinds == { "picture", "declare_bulls", "alpha", "cap_add_bulls", "text" }

\* C39: an entity reported with U = 0 and V = 0 has no planar position, one
\* with U or V non-zero has the position reported.  So no picture group holds
\* a contact at the origin; a MERGED line takes a Red and a Blue contact in
\* range of each other that are both away from the origin; a DEFEND line
\* takes a weapon and a Blue flight that are both away from it; bogey dope
\* gives a BRAA only from a flight and to a contact away from it, and
\* otherwise says the picture is clean; and with the resolved bullseye at the
\* origin picture, declare bulls, alpha check, cap add bulls and push set
\* answer as they do without a bullseye, and define nothing.
C39_OriginHasNoPosition ==
    [][ LET interest == reds(ws) \o unks(ws)
            inRange == \E r \in Range(Placed(reds(ws))), b \in Range(Placed(blues(ws))) :
                          Range2(r.uv, b.uv) <= MERGED_NM * MERGED_NM
            lostBull == find_bull(ws) # None /\ AtOrigin(Val(find_bull(ws)))
        IN  /\ \A i \in DOMAIN ws'.objects :
                  LET o == ws'.objects[i].val
                  IN  /\ AtOrigin(o) => uv_of(o) = None
                      /\ (o.uv # None /\ ~AtOrigin(o)) => uv_of(o) = o.uv
            /\ event'.kind = "picture"
               => \E gs \in { group_contacts(interest) } :
                     /\ \A g \in DOMAIN gs : \A k \in DOMAIN gs[g] : ~AtOrigin(gs[g][k])
                     /\ SumSeq([g \in DOMAIN gs |-> Len(gs[g])]) = Len(Placed(interest))
            /\ event'.kind = "TIME"
               => /\ "MERGED" \in KindsOf(emitted') => inRange
                  /\ (inRange /\ last_emit_tick = InitLastEmitTick)
                     => "MERGED" \in KindsOf(emitted')
            /\ event'.kind = "UPDATE"
               => LET obj == Get(ws'.objects, event'.args[1])
                  IN  /\ "DEFEND" \in KindsOf(emitted')
                         => ~AtOrigin(obj) /\ Placed(blues(ws)) # << >>
                      /\ (AtOrigin(obj) \/ Placed(blues(ws)) = << >>) => emitted' = << >>
            /\ event'.kind = "bogeydope"
               => /\ reply'.text = "BOGEY DOPE: BRAA"
                     => /\ Placed(interest) # << >>
                        /\ ~AtOrigin(blues(ws)[1])
                  /\ (blues(ws) # << >> /\ (AtOrigin(blues(ws)[1]) \/ Placed(interest) = << >>))
                     => reply'.text = "PICTURE: CLEAN."
            /\ (event'.kind \in BullseyeKinds /\ lostBull)
               => /\ event'.kind = "picture"
                     => reply'.text = IF interest = << >> THEN "PICTURE: CLEAN."
                                      ELSE "PICTURE: no bullseye available yet."
                  /\ event'.kind = "declare_bulls"
                     => reply'.text = "DECLARE: no bullseye available."
                  /\ event'.kind = "alpha"
                     => reply'.text = "ALPHA CHECK: no bullseye available."
                  /\ event'.kind = "cap_add_bulls"
                     => reply'.text = "CAP: UNABLE - no bullseye." /\ ws' = ws
                  /\ event'.kind = "text"
                     => reply'.text = "PUSH: UNABLE - no bullseye." /\ ws' = ws ]_vars

\* C39, its case: with the bullseye and a Red contact at the origin and the
\* flight 2 NM from it, after the TIME event the picture is asked and answered
\* as without a bullseye; the contact is in no group and not merged
C39_Witness ==
    /\ event.kind = "picture"
    /\ reply.text = "PICTURE: no bullseye available yet."
    /\ find_bull(ws) = Some(BullseyeOrigin)
    /\ blues(ws) = <<ViperClose>>
    /\ reds(ws) = <<RedAt(<<0, 0>>)>>
    /\ group_contacts(reds(ws) \o unks(ws)) = << >>
    /\ merged_line(ws) = None
    /\ last_emit_tick = 0
=============================================================================
